---- MODULE Spec2Model ----
(***************************************************************************)
(* A model of the D-Bus client library: the wire codec (put stream,        *)
(* alignment, simple marshallers, message envelope, streaming frame        *)
(* reader), the proxy interface's signal subscription, and the session     *)
(* engine (serials, pending calls, match-rule reference counts).           *)
(*                                                                         *)
(* JavaScript values are tagged tuples, the tag first, so that two values  *)
(* of different kinds compare unequal:                                     *)
(*   <<"number", neg, mag>>   an integer-valued number, mag little-endian  *)
(*                            base-256 digits, zero never negative         *)
(*   <<"fraction">>           a number that is not an integer (1.5)        *)
(*   <<"NaN">>, <<"Infinity", neg>>                                        *)
(*   <<"double", bits>>       a finite double given by its 8 IEEE bytes    *)
(*   <<"string", chars>>, <<"boolean", b>>, <<"array", elems>>             *)
(*   <<"Long", low, high, unsigned>>    a Long instance                    *)
(*   <<"object", low, high, unsigned>>  a plain low/high/unsigned triple   *)
(*   <<"undefined">>                                                       *)
(***************************************************************************)
EXTENDS Integers, Sequences, FiniteSets, TLC

VARIABLES
    \* codec round trip: marshall(signature, data), then unmarshall
    cCase, cBuf, cBack, cPc,
    \* message round trip: message.marshall, then message.unmarshall
    mMsg, mBuf, mBack, mPc, mStreamed,
    \* unmarshalMessages: the messages sent, the bytes of each, how many
    \* bytes have arrived, the stream's buffer, and the reader's closure
    sFrames, sBytes, sArrived, sBuf, sState, sHeader, sDelivered, sErr,
    \* DBusInterface: handlerMap, the wrappers made so far, the listeners of
    \* bus.signals, the bus callbacks not yet run, the calls made to the
    \* bus, the on/off calls made, and the errors thrown
    iHandlerMap, iWrappers, iListeners, iCallbacks, iCalls, iOps, iThrown,
    \* session engine: connection state, serial counter, pending-call
    \* table, flags of each call, bytes written, queued calls, inbound
    \* messages, completions, the calls ever queued, the state at close
    bState, bSerial, bPending, bFlags, bWire, bQueue, bInbox, bCompletions,
    bQueued, bAtClose,
    \* match-rule registry: reference counts, broker calls sent, broker
    \* replies received, callbacks waiting, callbacks resolved, calls made
    rRefs, rSent, rReplied, rWaiting, rResolved, rOps,
    \* one simple marshaller call: the type, the value, the put stream
    \* before the call and as the call left it, the error thrown
    pSig, pData, pBefore, pPs, pErr, pPc,
    \* DBusInterface call / getProperty / setProperty: the calls made, the
    \* invokes the bus holds, how many it has answered, and the user
    \* callbacks run
    xOps, xInvoked, xAnswered, xCompleted,
    \* a signature string, what parseSignature or the g marshaller made of
    \* it, and which of the two was called
    gSig, gResult, gPc,
    \* the authenticator: the configured methods, whether fd passing is
    \* wanted, the method being tried, the lines sent and received so far
    \* (oldest first), and the state of the handshake
    aMethods, aFd, aIndex, aLog, aState,
    \* introspection: the object being introspected, the parsed document
    \* processXML is given, the Introspect calls handed to the bus, the
    \* runs of the user's callback, and the position
    qObj, qXml, qInvoked, qCallbacks, qPc,
    \* readOneLine: the bytes the peer sends, how many have arrived at the
    \* stream and how many were read from it, collectedBytes, the runs of
    \* the callback, and whether onReadable is a listener
    lBytes, lArrived, lRead, lCollected, lLines, lListening,
    \* one put stream used for several calls: the offset it started at,
    \* the stream, the calls made on it, and whether a marshaller threw
    wStart, wPs, wCalls, wThrew

codecVars == <<cCase, cBuf, cBack, cPc>>
messageVars == <<mMsg, mBuf, mBack, mPc, mStreamed>>
streamVars == <<sFrames, sBytes, sArrived, sBuf, sState, sHeader, sDelivered, sErr>>
ifaceVars == <<iHandlerMap, iWrappers, iListeners, iCallbacks, iCalls, iOps, iThrown>>
busVars == <<bState, bSerial, bPending, bFlags, bWire, bQueue, bInbox, bCompletions,
             bQueued, bAtClose>>
matchVars == <<rRefs, rSent, rReplied, rWaiting, rResolved, rOps>>
simpleVars == <<pSig, pData, pBefore, pPs, pErr, pPc>>
proxyVars == <<xOps, xInvoked, xAnswered, xCompleted>>
sigVars == <<gSig, gResult, gPc>>
authVars == <<aMethods, aFd, aIndex, aLog, aState>>
xmlVars == <<qObj, qXml, qInvoked, qCallbacks, qPc>>
lineVars == <<lBytes, lArrived, lRead, lCollected, lLines, lListening>>
putVars == <<wStart, wPs, wCalls, wThrew>>
vars == <<codecVars, messageVars, streamVars, ifaceVars, busVars, matchVars,
    simpleVars, proxyVars, sigVars, authVars, xmlVars, lineVars, putVars>>
exceptCodec == <<messageVars, streamVars, ifaceVars, busVars, matchVars,
    simpleVars, proxyVars, sigVars, authVars, xmlVars, lineVars, putVars>>
exceptMessage == <<codecVars, streamVars, ifaceVars, busVars, matchVars,
    simpleVars, proxyVars, sigVars, authVars, xmlVars, lineVars, putVars>>
exceptStream == <<codecVars, messageVars, ifaceVars, busVars, matchVars,
    simpleVars, proxyVars, sigVars, authVars, xmlVars, lineVars, putVars>>
exceptIface == <<codecVars, messageVars, streamVars, busVars, matchVars,
    simpleVars, proxyVars, sigVars, authVars, xmlVars, lineVars, putVars>>
exceptBus == <<codecVars, messageVars, streamVars, ifaceVars, matchVars,
    simpleVars, proxyVars, sigVars, authVars, xmlVars, lineVars, putVars>>
exceptMatch == <<codecVars, messageVars, streamVars, ifaceVars, busVars,
    simpleVars, proxyVars, sigVars, authVars, xmlVars, lineVars, putVars>>
exceptSimple == <<codecVars, messageVars, streamVars, ifaceVars, busVars,
    matchVars, proxyVars, sigVars, authVars, xmlVars, lineVars, putVars>>
exceptProxy == <<codecVars, messageVars, streamVars, ifaceVars, busVars,
    matchVars, simpleVars, sigVars, authVars, xmlVars, lineVars, putVars>>
exceptSig == <<codecVars, messageVars, streamVars, ifaceVars, busVars,
    matchVars, simpleVars, proxyVars, authVars, xmlVars, lineVars, putVars>>
exceptAuth == <<codecVars, messageVars, streamVars, ifaceVars, busVars,
    matchVars, simpleVars, proxyVars, sigVars, xmlVars, lineVars, putVars>>
exceptXml == <<codecVars, messageVars, streamVars, ifaceVars, busVars,
    matchVars, simpleVars, proxyVars, sigVars, authVars, lineVars, putVars>>
exceptLine == <<codecVars, messageVars, streamVars, ifaceVars, busVars,
    matchVars, simpleVars, proxyVars, sigVars, authVars, xmlVars, putVars>>
exceptPut == <<codecVars, messageVars, streamVars, ifaceVars, busVars,
    matchVars, simpleVars, proxyVars, sigVars, authVars, xmlVars, lineVars>>

-----------------------------------------------------------------------------
(* Integers wider than the checker's machine integers.                     *)

\* how many base-256 digits a number carries: 2^64 needs nine
NumBytes == 9

\* the element of a one-element set: The({e(x) : x \in {v}}) is e(v), with
\* v computed once
The(S) == CHOOSE x \in S : TRUE

Max(S) == CHOOSE x \in S : \A y \in S : y <= x
Min(S) == CHOOSE x \in S : \A y \in S : x <= y

ZeroMag == [i \in 1..NumBytes |-> 0]
MagOf(n) == [i \in 1..NumBytes |-> IF i <= 4 THEN (n \div (256^(i-1))) % 256 ELSE 0]
MagPow2(k) == [i \in 1..NumBytes |-> IF i = (k \div 8) + 1 THEN 2^(k % 8) ELSE 0]
MagPow2m1(k) ==
    [i \in 1..NumBytes |->
        IF i < (k \div 8) + 1 THEN 255
        ELSE IF i = (k \div 8) + 1 THEN 2^(k % 8) - 1 ELSE 0]
MagInc(m) ==
    LET j == Min({i \in 1..Len(m) : m[i] # 255} \cup {Len(m) + 1})
    IN  [i \in 1..Len(m) |-> IF i < j THEN 0 ELSE IF i = j THEN m[i] + 1 ELSE m[i]]
MagDec(m) ==
    LET j == Min({i \in 1..Len(m) : m[i] # 0} \cup {Len(m) + 1})
    IN  [i \in 1..Len(m) |-> IF i < j THEN 255 ELSE IF i = j THEN m[i] - 1 ELSE m[i]]
MagIsZero(m) == \A i \in 1..Len(m) : m[i] = 0
MagLess(a, b) ==
    \E i \in 1..Len(a) : a[i] < b[i] /\ \A j \in (i+1)..Len(a) : a[j] = b[j]
\* the low n bytes of 256^n - m: two's complement of a magnitude
MagNegate(m, n) ==
    LET j == Min({i \in 1..Len(m) : m[i] # 0} \cup {Len(m) + 1})
    IN  [i \in 1..n |-> IF i < j THEN 0 ELSE IF i = j THEN 256 - m[i] ELSE 255 - m[i]]
MagPad(b) == [i \in 1..NumBytes |-> IF i <= Len(b) THEN b[i] ELSE 0]

Num(neg, mag) == <<"number", neg /\ ~MagIsZero(mag), mag>>
N(n) == IF n >= 0 THEN Num(FALSE, MagOf(n)) ELSE Num(TRUE, MagOf(-n))
IsNum(v) == v[1] = "number"
NumLess(a, b) ==
    IF a[2] /\ ~b[2] THEN TRUE
    ELSE IF ~a[2] /\ b[2] THEN FALSE
    ELSE IF a[2] THEN MagLess(b[3], a[3]) ELSE MagLess(a[3], b[3])
\* typeof v === "number"
TypeofNumber(v) == v[1] \in {"number", "fraction", "NaN", "Infinity", "double"}

\* the n low bytes of a number's two's complement, least significant first
TwosBytes(v, n) ==
    IF v[2] THEN MagNegate(v[3], n) ELSE [i \in 1..n |-> v[3][i]]
\* the signed number whose n-byte two's complement is b
FromTwos(b) ==
    IF b[Len(b)] >= 128 THEN Num(TRUE, MagPad(MagNegate(b, Len(b))))
    ELSE Num(FALSE, MagPad(b))
\* the unsigned number whose bytes are b
FromBytes(b) == Num(FALSE, MagPad(b))

-----------------------------------------------------------------------------
(* Strings: sequences of characters.  A character is a one-character       *)
(* string; "NUL" stands for U+0000 and "E9" for U+00E9 (two UTF-8 bytes).  *)

HexDigits == <<"0", "1", "2", "3", "4", "5", "6", "7", "8", "9",
               "A", "B", "C", "D", "E", "F">>
Letters == <<"a", "b", "c", "d", "e", "f", "g", "h", "i", "j", "k", "l", "m",
             "n", "o", "p", "q", "r", "s", "t", "u", "v", "w", "x", "y", "z">>
Capitals == <<"G", "H", "I", "J", "K", "L", "M", "N", "O", "P", "Q", "R", "S", "T",
              "U", "V", "W", "X", "Y", "Z">>
IndexIn(seq, c) == CHOOSE i \in 1..Len(seq) : seq[i] = c
InSeq(seq, c) == \E i \in 1..Len(seq) : seq[i] = c
CodePoint(c) ==
    CASE c = "NUL" -> 0
      [] c = " " -> 32
      [] c = "(" -> 40
      [] c = ")" -> 41
      [] c = "-" -> 45
      [] c = "." -> 46
      [] c = "/" -> 47
      [] c = ":" -> 58
      [] c = "=" -> 61
      [] c = "'" -> 39
      [] c = "," -> 44
      [] c = "_" -> 95
      [] c = "{" -> 123
      [] c = "}" -> 125
      [] c = "E9" -> 233
      [] InSeq(HexDigits, c) /\ IndexIn(HexDigits, c) <= 10 -> 47 + IndexIn(HexDigits, c)
      [] InSeq(HexDigits, c) -> 54 + IndexIn(HexDigits, c)
      [] InSeq(Capitals, c) -> 70 + IndexIn(Capitals, c)
      [] InSeq(Letters, c) -> 96 + IndexIn(Letters, c)
Alphabet ==
    {"NUL", " ", "(", ")", "-", ".", "/", "_", "{", "}", "E9", ":", "=", "'", ","}
        \cup {HexDigits[i] : i \in 1..16} \cup {Capitals[i] : i \in 1..20}
        \cup {Letters[i] : i \in 1..26}

Repeat(x, n) == [i \in 1..n |-> x]

RECURSIVE Flatten(_)
Flatten(ss) ==
    IF Len(ss) = 0 THEN <<>>
    ELSE IF Len(ss) = 1 THEN ss[1]
    ELSE LET mid == Len(ss) \div 2
         IN  Flatten(SubSeq(ss, 1, mid)) \o Flatten(SubSeq(ss, mid + 1, Len(ss)))

\* Buffer.from(data, "utf8")
Utf8Char(c) ==
    LET cp == CodePoint(c)
    IN  IF cp < 128 THEN <<cp>> ELSE <<192 + (cp \div 64), 128 + (cp % 64)>>
Utf8(chars) == Flatten([i \in 1..Len(chars) |-> Utf8Char(chars[i])])
\* Buffer.from(data, "ascii"): one byte per UTF-16 code unit
Ascii(chars) == [i \in 1..Len(chars) |-> CodePoint(chars[i]) % 256]

Str(chars) == <<"string", chars>>
IsStr(v) == v[1] = "string"

-----------------------------------------------------------------------------
(* The put stream (lib/put.ts) and align (lib/align.ts).                   *)

Put == [words |-> <<>>, _length |-> 0, _offset |-> 0]

put(ps, buffer) ==
    [ps EXCEPT !.words = Append(@, [buffer |-> buffer]),
               !._length = @ + Len(buffer)]
word8(ps, value) ==
    [ps EXCEPT !.words = Append(@, [bytes |-> 1, value |-> value]),
               !._length = @ + 1]
word16le(ps, value) ==
    [ps EXCEPT !.words = Append(@, [bytes |-> 2, value |-> value]),
               !._length = @ + 2]
word32le(ps, value) ==
    [ps EXCEPT !.words = Append(@, [bytes |-> 4, value |-> value]),
               !._length = @ + 4]

\* (word.value >> i) & 0xff for i = 0, 8, ...: the bytes of ToInt32(value)
WordBytes(word) ==
    IF "buffer" \in DOMAIN word THEN word.buffer
    ELSE IF IsNum(word.value)
         THEN [i \in 1..word.bytes |-> TwosBytes(word.value, 4)[i]]
         ELSE Repeat(0, word.bytes)

\* Put.buffer()
buffer(ps) == Flatten([i \in 1..Len(ps.words) |-> WordBytes(ps.words[i])])

\* the first multiple of n at or after pos
AlignPos(pos, n) == ((pos + n - 1) \div n) * n

\* an align that adds no padding
alignNever(ps, n) == ps

\* an align that writes the padding and leaves _offset where it was
alignUncounted(ps, n) ==
    LET pad == n - (ps._offset % n)
    IN  IF pad = 0 \/ pad = n THEN ps ELSE put(ps, Repeat(0, pad))

\* align(ps, n)
align(ps, n) ==
    LET pad == n - (ps._offset % n)
    IN  IF pad = 0 \/ pad = n THEN ps
        ELSE [put(ps, Repeat(0, pad)) EXCEPT !._offset = @ + pad]

-----------------------------------------------------------------------------
(* parseSignature (lib/signature.ts).  A node is [type, child]; the result *)
(* of a parse is [err, tree]: err = "" and the list of top-level nodes, or *)
(* the message of the error thrown.                                        *)

BRACKET_PAIRS(c) == IF c = "{" THEN "}" ELSE ")"
KNOWN_TYPES ==
    {"(", ")", "{", "}", "y", "b", "n", "q", "i", "u", "x", "t", "d", "s",
     "o", "g", "a", "v", "h"}

Node(type, child) == [type |-> type, child |-> child]

RECURSIVE parseOne(_, _, _)
RECURSIVE parseChildren(_, _, _, _)
\* parseOne(char) with the cursor at index (the next character to read):
\* [err, node, index]
parseOne(signature, char, index) ==
    IF char \notin KNOWN_TYPES
    THEN [err |-> "Unknown type", node |-> Node(char, <<>>), index |-> index]
    ELSE IF char = "a"
    THEN IF index > Len(signature)
         THEN [err |-> "Bad signature: unexpected end",
               node |-> Node(char, <<>>), index |-> index]
         ELSE LET r == parseOne(signature, signature[index], index + 1)
              IN  [err |-> r.err, node |-> Node("a", <<r.node>>), index |-> r.index]
    ELSE IF char \in {"{", "("}
    THEN parseChildren(signature, char, index, <<>>)
    ELSE [err |-> "", node |-> Node(char, <<>>), index |-> index]
\* the while loop of the struct / dict entry case
parseChildren(signature, char, index, child) ==
    IF index > Len(signature)
    THEN [err |-> "Bad signature: unexpected end",
          node |-> Node(char, child), index |-> index]
    ELSE IF signature[index] = BRACKET_PAIRS(char)
    THEN [err |-> "", node |-> Node(char, child), index |-> index + 1]
    ELSE LET r == parseOne(signature, signature[index], index + 1)
         IN  IF r.err # "" THEN [err |-> r.err, node |-> Node(char, child), index |-> r.index]
             ELSE parseChildren(signature, char, r.index, Append(child, r.node))

RECURSIVE parseSome(_, _, _, _)
\* up to n iterations of the final while loop: [err, tree, index]
parseSome(signature, index, result, n) ==
    IF n = 0 \/ index > Len(signature)
    THEN [err |-> "", tree |-> result, index |-> index]
    ELSE LET r == parseOne(signature, signature[index], index + 1)
         IN  IF r.err # "" THEN [err |-> r.err, tree |-> <<>>, index |-> r.index]
             ELSE The({ parseSome(signature, r.index, pushed, n - 1)
                        : pushed \in {Append(result, r.node)} })

RECURSIVE parseTop(_, _, _)
\* the final while loop, sixteen iterations at a time (the evaluation of a
\* long signature stays shallow)
parseTop(signature, index, result) ==
    IF index > Len(signature) THEN [err |-> "", tree |-> result]
    ELSE LET r == parseSome(signature, index, result, 16)
         IN  IF r.err # "" THEN [err |-> r.err, tree |-> <<>>]
             ELSE parseTop(signature, r.index, r.tree)

\* parseSignature of a value: anything but a string has no length to read
parseSignature(signature) ==
    IF ~IsStr(signature) THEN [err |-> "TypeError", tree |-> <<>>]
    ELSE parseTop(signature[2], 1, <<>>)

-----------------------------------------------------------------------------
(* Long (the long.js library): a 64-bit pattern, low and high signed       *)
(* 32-bit halves, and the unsigned flag.                                   *)

Long(low, high, unsigned) == <<"Long", low, high, unsigned>>
IsLong(v) == v[1] = "Long"
LongBits(l) == TwosBytes(l[2], 4) \o TwosBytes(l[3], 4)
LongOfBits(b, unsigned) ==
    Long(FromTwos(SubSeq(b, 1, 4)), FromTwos(SubSeq(b, 5, 8)), unsigned)
\* the number a Long stands for
LongValue(l) == IF l[4] THEN FromBytes(LongBits(l)) ELSE FromTwos(LongBits(l))
LongGt(l, bound) == NumLess(bound, LongValue(l))
LongLt(l, bound) == NumLess(LongValue(l), bound)
Long_MAX_VALUE == Num(FALSE, MagPow2m1(63))
Long_MIN_VALUE == Num(TRUE, MagPow2(63))
Long_MAX_UNSIGNED_VALUE == Num(FALSE, MagPow2m1(64))

\* Long.fromNumber(value, unsigned)
LongFromNumber(val, unsigned) ==
    IF unsigned /\ val[2] THEN LongOfBits(Repeat(0, 8), TRUE)
    ELSE IF unsigned /\ ~NumLess(val, Num(FALSE, MagPow2(64)))
         THEN LongOfBits(Repeat(255, 8), TRUE)
    ELSE IF ~unsigned /\ ~NumLess(Long_MIN_VALUE, val)
         THEN LongOfBits(TwosBytes(Long_MIN_VALUE, 8), FALSE)
    ELSE IF ~unsigned /\ NumLess(Long_MAX_VALUE, val)
         THEN LongOfBits(TwosBytes(Long_MAX_VALUE, 8), FALSE)
    ELSE LongOfBits(TwosBytes(val, 8), unsigned)

RECURSIVE MulAddFrom(_, _, _, _)
MulAddFrom(m, k, carry, i) ==
    IF i > Len(m) THEN <<>>
    ELSE LET t == m[i] * k + carry
         IN  <<t % 256>> \o MulAddFrom(m, k, t \div 256, i + 1)
\* m * k + a modulo 256^Len(m)
MulAdd(m, k, a) == MulAddFrom(m, k, a, 1)

RECURSIVE DivFrom(_, _, _, _)
\* quotient bytes 1..i and the remainder of m \div d, from the top byte down
DivFrom(m, d, rem, i) ==
    IF i = 0 THEN [q |-> <<>>, r |-> rem]
    ELSE LET cur == rem * 256 + m[i]
             rest == DivFrom(m, d, cur % d, i - 1)
         IN  [q |-> Append(rest.q, cur \div d), r |-> rest.r]
DivMod(m, d) == DivFrom(m, d, 0, Len(m))

IsDigit(c, radix) == InSeq(HexDigits, c) /\ IndexIn(HexDigits, c) <= radix
DigitValue(c) == IndexIn(HexDigits, c) - 1

RECURSIVE ParseDigits(_, _, _, _)
ParseDigits(chars, radix, i, acc) ==
    IF i > Len(chars) THEN acc
    ELSE ParseDigits(chars, radix, i + 1, MulAdd(acc, radix, DigitValue(chars[i])))

RECURSIVE MagToString(_, _)
MagToString(m, radix) ==
    IF MagIsZero(m) THEN <<>>
    ELSE LET d == DivMod(m, radix)
         IN  Append(MagToString(d.q, radix), HexDigits[d.r + 1])

\* Long.prototype.toString(radix).toUpperCase()
LongToString(l, radix) ==
    The({ The({ IF digits = <<>> THEN <<"0">>
                ELSE IF v[2] THEN <<"-">> \o digits ELSE digits
                : digits \in {MagToString(v[3], radix)} })
          : v \in {LongValue(l)} })

\* Long.fromString(str, unsigned, radix): [err, long].  Arithmetic wraps at
\* 64 bits; a leading "-" negates the rest.  A string with a character that
\* is no digit of the radix parses to a value whose toString differs from
\* it; it is reported as bad for the caller's comparison to reject.
LongFromString(str, unsigned, radix) ==
    LET neg == Len(str) > 0 /\ str[1] = "-"
        body == IF neg THEN Tail(str) ELSE str
    IN  IF Len(body) = 0 THEN [err |-> "empty string", bad |-> TRUE, long |-> <<>>]
        ELSE IF \E i \in 1..Len(body) : ~IsDigit(body[i], radix)
        THEN [err |-> "", bad |-> TRUE, long |-> <<>>]
        ELSE The({ [err |-> "", bad |-> FALSE,
                    long |-> LongOfBits(IF neg THEN MagNegate(m, 8) ELSE m, unsigned)]
                   : m \in {ParseDigits(body, radix, 1, Repeat(0, 8))} })

-----------------------------------------------------------------------------
(* checkRange, checkInteger, checkBoolean, makeLong, checkLong             *)
(* (lib/marshallers.ts).  A check yields "" or the message it throws.      *)

\* a range check that forgets the lower bound
checkRangeNoMin(minValue, maxValue, data) ==
    IF data[1] = "Infinity" THEN "Number outside range"
    ELSE IF data[1] # "number" THEN ""
    ELSE IF NumLess(maxValue, data) THEN "Number outside range" ELSE ""

\* a range check that refuses the bounds themselves
checkRangeOpen(minValue, maxValue, data) ==
    IF data[1] = "Infinity" THEN "Number outside range"
    ELSE IF data[1] # "number" THEN ""
    ELSE IF ~NumLess(data, maxValue) \/ ~NumLess(minValue, data)
         THEN "Number outside range" ELSE ""

checkRange(minValue, maxValue, data) ==
    IF data[1] = "Infinity" THEN "Number outside range"
    ELSE IF data[1] # "number" THEN ""
    ELSE IF NumLess(maxValue, data) \/ NumLess(data, minValue)
         THEN "Number outside range" ELSE ""

checkInteger(data) ==
    IF ~TypeofNumber(data) THEN "Data was not of type number"
    ELSE IF data[1] \in {"fraction", "NaN", "double"} THEN "Data was not an integer"
    ELSE ""

checkBoolean(data) ==
    IF data[1] = "boolean" \/ data = N(0) \/ data = N(1) THEN ""
    ELSE "Data was not of type boolean"

\* toUpperCase on the characters that matter to a number
UpperChar(c) ==
    IF InSeq(Letters, c) /\ IndexIn(Letters, c) <= 6 THEN HexDigits[10 + IndexIn(Letters, c)]
    ELSE IF InSeq(Letters, c) THEN Capitals[IndexIn(Letters, c) - 6] ELSE c
Trim(chars) ==
    LET keep == {i \in 1..Len(chars) : chars[i] # " "}
    IN  IF keep = {} THEN <<>> ELSE SubSeq(chars, Min(keep), Max(keep))
StartsWith(chars, prefix) ==
    Len(chars) >= Len(prefix) /\ SubSeq(chars, 1, Len(prefix)) = prefix
Drop(chars, n) == SubSeq(chars, n + 1, Len(chars))
\* strVal.replace(/^0+(?=\d)/, "")
DumpLeadingZeroes(chars) ==
    LET z == Min({i \in 1..Len(chars) : chars[i] # "0"} \cup {Len(chars) + 1}) - 1
        isD(i) == i <= Len(chars) /\ IsDigit(chars[i], 10)
    IN  IF z >= 1 /\ isD(z + 1) THEN Drop(chars, z)
        ELSE IF z >= 2 THEN Drop(chars, z - 1)
        ELSE chars

ToUpperCase(chars) == [i \in 1..Len(chars) |-> UpperChar(chars[i])]
\* the radix a "0X" or "-0X" prefix names, and the value without the prefix
CutHexPrefix(val) ==
    IF StartsWith(val, <<"0", "X">>) THEN [radix |-> 16, val |-> Drop(val, 2)]
    ELSE IF StartsWith(val, <<"-", "0", "X">>)
    THEN [radix |-> 16, val |-> <<"-">> \o Drop(val, 3)]
    ELSE [radix |-> 10, val |-> val]
\* the message of the first check that throws
FirstError(e1, e2) == IF e1 # "" THEN e1 ELSE e2

\* a check of a number against the 64-bit range of the field
checkNumber64(val, signed) ==
    FirstError(checkInteger(val),
               checkRange(IF signed THEN Num(TRUE, MagPow2(63)) ELSE N(0),
                          Num(FALSE, IF signed THEN MagPow2m1(63) ELSE MagPow2m1(64)), val))

\* the first try block of makeLong's number branch: "" or the message thrown
checkNumber(val, signed) ==
    FirstError(checkInteger(val),
               checkRange(IF signed THEN Num(TRUE, MagPow2m1(53)) ELSE N(0),
                          Num(FALSE, MagPow2m1(53)), val))

\* makeLong(val, signed): [err, long]
makeLong(val, signed) ==
    IF IsLong(val) THEN [err |-> "", long |-> val]
    ELSE IF TypeofNumber(val) THEN
        The({ IF e # "" THEN [err |-> e, long |-> <<>>]
              ELSE [err |-> "", long |-> LongFromNumber(val, ~signed)]
              : e \in {checkNumber(val, signed)} })
    ELSE IF IsStr(val) THEN
        The({ The({ The({ IF r.err # ""
                          THEN [err |-> "Error converting string to 64bit integer",
                                long |-> <<>>]
                          ELSE IF r.bad \/ LongToString(r.long, pre.radix) # strVal
                          THEN [err |-> "Data did not convert correctly", long |-> <<>>]
                          ELSE [err |-> "", long |-> r.long]
                          : r \in {LongFromString(strVal, ~signed, pre.radix)} })
                    : strVal \in {DumpLeadingZeroes(pre.val)} })
              : pre \in {CutHexPrefix(ToUpperCase(Trim(val[2])))} })
    ELSE IF val[1] = "object" THEN [err |-> "", long |-> Long(val[2], val[3], val[4])]
    ELSE IF val[1] = "undefined"
    THEN [err |-> "Error converting object to 64bit integer", long |-> <<>>]
    ELSE [err |-> "", long |-> Long(N(0), N(0), FALSE)]

\* a checkLong that takes whatever long it is given or makes
checkLongUnchecked(data, signed) ==
    IF IsLong(data) THEN [err |-> "", long |-> data] ELSE makeLong(data, signed)

\* checkLong(data, signed): [err, long]
checkLong(data, signed) ==
    The({ IF made.err # "" THEN made
          ELSE IF signed # ~made.long[4]
          THEN [err |-> IF signed
                        THEN "Longjs object is unsigned, but marshalling into signed 64 bit field"
                        ELSE "Longjs object is signed, but marshalling into unsigned 64 bit field",
                long |-> <<>>]
          ELSE IF \/ LongGt(made.long, IF signed THEN Long_MAX_VALUE
                                        ELSE Long_MAX_UNSIGNED_VALUE)
                  \/ LongLt(made.long, IF signed THEN Long_MIN_VALUE ELSE N(0))
          THEN [err |-> IF signed THEN "Data was out of range (64-bit signed)"
                        ELSE "Data was out of range (64-bit unsigned)",
                long |-> <<>>]
          ELSE made
          : made \in {IF ~IsLong(data) THEN makeLong(data, signed)
                      ELSE [err |-> "", long |-> data]} })

-----------------------------------------------------------------------------
(* MakeSimpleMarshaller (lib/marshallers.ts).                              *)

SimpleTypes == {"o", "s", "g", "y", "b", "n", "q", "i", "u", "t", "x", "d"}

checkValidString(data) ==
    IF ~IsStr(data) THEN "Data was not of type string"
    ELSE IF \E i \in 1..Len(data[2]) : data[2][i] = "NUL" THEN "String contains null byte"
    ELSE ""

\* parenCount at the top of iteration ii (0-based) of the loop
parenCount(chars, ii) ==
    Cardinality({k \in 1..ii : chars[k] = "("}) - Cardinality({k \in 1..ii : chars[k] = ")"})

checkValidSignature(data) ==
    IF Len(data[2]) > 255 THEN "Data is too long for signature type"
    ELSE IF \E ii \in 0..(Len(data[2]) - 1) : parenCount(data[2], ii) > 32
    THEN "Maximum container type nesting exceeded in signature type"
    ELSE parseSignature(data).err

\* the bounds each integer marshaller hands to checkRange
MinValue(signature) ==
    CASE signature = "n" -> N(-32767 - 1)
      [] signature = "i" -> Num(TRUE, MagPow2(31))
      [] OTHER -> N(0)
MaxValue(signature) ==
    CASE signature = "y" -> N(255)
      [] signature = "n" -> N(32767)
      [] signature = "q" -> N(65535)
      [] signature = "i" -> Num(FALSE, MagPow2m1(31))
      [] signature = "u" -> Num(FALSE, MagPow2m1(32))

\* marshaller.check(data): [err, long]; long is what checkLong returns
check(signature, data) ==
    IF signature \in {"t", "x"} THEN checkLong(data, signature = "x")
    ELSE [long |-> <<>>,
          err |->
            CASE signature \in {"o", "s"} -> checkValidString(data)
              [] signature = "g" ->
                    FirstError(checkValidString(data), checkValidSignature(data))
              [] signature \in {"y", "n", "q", "i", "u"} ->
                    FirstError(checkInteger(data),
                               checkRange(MinValue(signature), MaxValue(signature), data))
              [] signature = "b" -> checkBoolean(data)
              [] signature = "d" ->
                    IF ~TypeofNumber(data) THEN "Data was not of type number"
                    ELSE IF data[1] = "NaN" THEN "Data was not a number"
                    ELSE IF data[1] = "Infinity" THEN "Number outside range"
                    ELSE ""
              [] OTHER -> "Unknown data type format"]

Truthy(data) ==
    CASE data[1] = "boolean" -> data[2]
      [] data[1] = "number" -> ~MagIsZero(data[3])
      [] data[1] = "string" -> data[2] # <<>>
      [] data[1] \in {"undefined", "NaN"} -> FALSE
      [] OTHER -> TRUE

AddOffset(ps, n) == [ps EXCEPT !._offset = @ + n]

\* buff.writeDoubleLE(parseFloat(data)): the IEEE bytes of the number
DoubleBytes(data) == IF data[1] = "double" THEN data[2] ELSE Repeat(0, 8)

\* a length that counts the terminator
byteLengthWithNul(buff) == Len(buff) + 1
\* buff.length
byteLength(buff) == Len(buff)

\* the statements of marshaller.marshall(ps, data) after this.check(data);
\* long is what check returned
writeSimple(ps, signature, data, long) ==
    CASE signature \in {"o", "s"} ->
            The({ AddOffset(word8(put(word32le(align(ps, 4), N(byteLength(buff))), buff), N(0)),
                            5 + Len(buff))
                  : buff \in {Utf8(data[2])} })
      [] signature = "g" ->
            The({ AddOffset(word8(put(word8(ps, N(Len(data[2]))), buff), N(0)),
                            2 + Len(buff))
                  : buff \in {Ascii(data[2])} })
      [] signature = "y" -> AddOffset(word8(ps, data), 1)
      [] signature = "b" ->
            AddOffset(word32le(align(ps, 4), N(IF Truthy(data) THEN 1 ELSE 0)), 4)
      [] signature = "n" -> AddOffset(put(align(ps, 2), TwosBytes(data, 2)), 2)
      [] signature = "q" -> AddOffset(word16le(align(ps, 2), data), 2)
      [] signature = "i" -> AddOffset(put(align(ps, 4), TwosBytes(data, 4)), 4)
      [] signature = "u" -> AddOffset(word32le(align(ps, 4), data), 4)
      [] signature \in {"t", "x"} ->
            AddOffset(word32le(word32le(align(ps, 8), long[2]), long[3]), 8)
      [] signature = "d" -> AddOffset(put(align(ps, 8), DoubleBytes(data)), 8)

\* a marshaller that aligns the stream before it checks the value
marshallAlignFirst(ps, signature, data) ==
    The({ IF c.err # "" THEN [err |-> c.err, ps |-> align(ps, 8)]
          ELSE [err |-> "", ps |-> writeSimple(ps, signature, data, c.long)]
          : c \in {check(signature, data)} })

\* marshaller.marshall(ps, data): [err, ps]; on a throw ps is as the call left it
marshallSimple(ps, signature, data) ==
    The({ IF c.err # "" THEN [err |-> c.err, ps |-> ps]
          ELSE [err |-> "", ps |-> writeSimple(ps, signature, data, c.long)]
          : c \in {check(signature, data)} })

-----------------------------------------------------------------------------
(* marshall(signature, data, offset) (lib/marshall): the type-directed     *)
(* writer over parseSignature's tree.  A JavaScript array is               *)
(* <<"array", elems>>.                                                     *)

Arr(elems) == <<"array", elems>>
IsArr(v) == v[1] = "array"

\* the natural alignment of a type
Alignment(type) ==
    CASE type \in {"y", "g", "v"} -> 1
      [] type \in {"n", "q"} -> 2
      [] type \in {"b", "i", "u", "s", "o", "h", "a"} -> 4
      [] type \in {"x", "t", "d", "(", "{"} -> 8
      [] OTHER -> 1

\* a length that counts the length slot as well
arrayLengthWithSlot(first, end) == end - first + 4
\* the length back-patched into an array's slot: the bytes from the first
\* element to the end of the last
arrayLength(first, end) == end - first

RECURSIVE write(_, _, _)
RECURSIVE writeStruct(_, _, _, _)
RECURSIVE writeElements(_, _, _, _)

\* writeStruct(ps, tree, data): the fields i.. of a struct, in order
writeStruct(ps, tree, data, i) ==
    IF ~IsArr(data) \/ Len(data[2]) # Len(tree)
    THEN [err |-> "Invalid struct data", ps |-> ps]
    ELSE IF i > Len(tree) THEN [err |-> "", ps |-> ps]
    ELSE The({ IF r.err # "" THEN r ELSE writeStruct(r.ps, tree, data, i + 1)
               : r \in {write(ps, tree[i], data[2][i])} })

\* the elements i.. of an array, each of type ele
writeElements(ps, ele, elems, i) ==
    IF i > Len(elems) THEN [err |-> "", ps |-> ps]
    ELSE The({ IF r.err # "" THEN r ELSE writeElements(r.ps, ele, elems, i + 1)
               : r \in {write(ps, ele, elems[i])} })

write(ps, ele, data) ==
    CASE ele.type \in {"(", "{"} -> writeStruct(align(ps, 8), ele.child, data, 1)
      [] ele.type = "a" ->
            IF ~IsArr(data) THEN [err |-> "Expected array", ps |-> ps]
            ELSE
            \* the elements are written to a stream of their own that
            \* starts after the length slot and its alignment pad
            The({ The({ The({ IF body.err # "" THEN [err |-> body.err, ps |-> ps]
                        ELSE [err |-> "",
                              ps |-> [put(put(word32le(a4, N(arrayLength(first, body.ps._offset))),
                                              Repeat(0, first - (a4._offset + 4))),
                                          buffer(body.ps))
                                      EXCEPT !._offset = body.ps._offset]]
                        : body \in {writeElements([Put EXCEPT !._offset = first],
                                                  ele.child[1], data[2], 1)} })
                  : first \in {AlignPos(a4._offset + 4, Alignment(ele.child[1].type))} })
                  : a4 \in {align(ps, 4)} })
      [] ele.type = "v" ->
            IF ~IsArr(data) \/ Len(data[2]) # 2
            THEN [err |-> "variant data should be [signature, data]", ps |-> ps]
            ELSE
            The({ IF sg.err # "" THEN sg
                  ELSE IF tree.err # "" THEN [err |-> tree.err, ps |-> ps]
                  ELSE IF Len(tree.tree) # 1
                  THEN [err |-> "variant signature is not a single complete type", ps |-> ps]
                  ELSE write(sg.ps, tree.tree[1], data[2][2])
                  : sg \in {marshallSimple(ps, "g", data[2][1])},
                    tree \in {parseSignature(data[2][1])} })
      [] OTHER -> marshallSimple(ps, ele.type, data)

\* marshall(signature, data, offset): [err, buf]; data is the list of values
marshallData(signature, data, offset) ==
    The({ IF tree.err # "" THEN [err |-> tree.err, buf |-> <<>>]
          ELSE IF ~IsArr(data) \/ Len(data[2]) # Len(tree.tree)
          THEN [err |-> "message body does not match message signature", buf |-> <<>>]
          ELSE The({ IF r.err # "" THEN [err |-> r.err, buf |-> <<>>]
                     ELSE [err |-> "", buf |-> buffer(r.ps)]
                     : r \in {writeStruct([Put EXCEPT !._offset = offset],
                                          tree.tree, data, 1)} })
          : tree \in {parseSignature(signature)} })

-----------------------------------------------------------------------------
(* DBusBuffer (lib/dbus-buffer): the reader that mirrors the marshaller.   *)
(* pos counts bytes from the start of the buffer.  A read yields           *)
(* [err, val, pos].                                                        *)

Slice(buf, pos, n) == SubSeq(buf, pos + 1, pos + n)
Failed(msg, pos) == [err |-> msg, val |-> <<"undefined">>, pos |-> pos]
Got(val, pos) == [err |-> "", val |-> val, pos |-> pos]

CharOfCode(cp) ==
    IF \E c \in Alphabet : CodePoint(c) = cp
    THEN CHOOSE c \in Alphabet : CodePoint(c) = cp ELSE "?"

RECURSIVE Utf8Decode(_, _)
\* the characters of UTF-8 bytes i.., or <<"invalid">> in their place
Utf8Decode(bytes, i) ==
    IF i > Len(bytes) THEN <<>>
    ELSE IF bytes[i] < 128 THEN <<CharOfCode(bytes[i])>> \o Utf8Decode(bytes, i + 1)
    ELSE IF bytes[i] >= 194 /\ bytes[i] < 224 /\ i < Len(bytes)
            /\ bytes[i+1] >= 128 /\ bytes[i+1] < 192
    THEN <<CharOfCode((bytes[i] - 192) * 64 + (bytes[i+1] - 128))>> \o Utf8Decode(bytes, i + 2)
    ELSE <<"invalid">>
IsSafeInteger(v) == ~MagLess(MagPow2m1(53), v[3])

\* a 64-bit field: a number when it fits the safe window, a Long otherwise
\* or when ReturnLongjs asks for one
readInt64(bits, unsigned, opts) ==
    The({ IF opts.ReturnLongjs \/ ~IsSafeInteger(v) THEN LongOfBits(bits, unsigned) ELSE v
          : v \in {LongValue(LongOfBits(bits, unsigned))} })

\* a string behind a length field of lenBytes bytes
readString(buf, pos, lenBytes) ==
    The({ IF p + lenBytes > Len(buf) THEN Failed("ShortRead", p)
          ELSE The({ The({ IF n[3][4] # 0 \/ end > Len(buf) THEN Failed("ShortRead", p)
                           ELSE IF buf[end] # 0 THEN Failed("string not NUL-terminated", p)
                           ELSE The({ IF chars # <<>> /\ chars[Len(chars)] = "invalid"
                                      THEN Failed("invalid UTF-8", p)
                                      ELSE Got(Str(chars), end)
                                      : chars \in {Utf8Decode(
                                                      SubSeq(buf, p + lenBytes + 1, end - 1),
                                                      1)} })
                           \* the offset of the terminating NUL, from 1
                           : end \in {p + lenBytes + 1
                                      + n[3][1] + 256 * n[3][2] + 65536 * n[3][3]} })
                     : n \in {FromBytes(Slice(buf, p, lenBytes))} })
          : p \in {IF lenBytes = 4 THEN AlignPos(pos, 4) ELSE pos} })

readSimpleType(buf, pos, type, opts) ==
    IF type \in {"s", "o", "g"}
    THEN The({ IF r.err # "" \/ type # "g" THEN r
               ELSE The({ IF e # "" THEN Failed(e, pos) ELSE r
                          : e \in {parseSignature(r.val).err} })
               : r \in {readString(buf, pos, IF type = "g" THEN 1 ELSE 4)} })
    ELSE The({ IF p + Alignment(type) > Len(buf) THEN Failed("ShortRead", p)
               ELSE The({ Got(CASE type \in {"y", "q", "u", "h"} -> FromBytes(raw)
                                [] type \in {"n", "i"} -> FromTwos(raw)
                                [] type = "b" -> <<"boolean", ~MagIsZero(raw)>>
                                [] type \in {"x", "t"} -> readInt64(raw, type = "t", opts)
                                [] type = "d" -> <<"double", raw>>,
                              p + Alignment(type))
                          \* a fixed-size type is as wide as its alignment
                          : raw \in {Slice(buf, p, Alignment(type))} })
               : p \in {AlignPos(pos, Alignment(type))} })

RECURSIVE readTree(_, _, _, _)
RECURSIVE readStruct(_, _, _, _, _, _)
RECURSIVE readElements(_, _, _, _, _, _)

\* readStruct(struct): the values of the types i.. of a list of types
readStruct(buf, pos, struct, opts, i, acc) ==
    IF i > Len(struct) THEN Got(Arr(acc), pos)
    ELSE The({ IF r.err # "" THEN r
               ELSE readStruct(buf, r.pos, struct, opts, i + 1, Append(acc, r.val))
               : r \in {readTree(buf, pos, struct[i], opts)} })

\* the elements of an array up to the byte offset end
readElements(buf, pos, ele, opts, end, acc) ==
    IF pos >= end THEN Got(Arr(acc), pos)
    ELSE The({ IF r.err # "" THEN r
               ELSE IF r.pos <= pos THEN Failed("array element of no size", pos)
               ELSE readElements(buf, r.pos, ele, opts, end, Append(acc, r.val))
               : r \in {readTree(buf, pos, ele, opts)} })

\* readArray(eleType, arrayBlobSize) with the cursor after the length field
readArray(buf, pos, ele, arrayBlobSize, opts) ==
    The({ IF start + arrayBlobSize > Len(buf)
          THEN Failed("array length exceeds the remaining buffer", pos)
          ELSE readElements(buf, start, ele, opts, start + arrayBlobSize, <<>>)
          : start \in {AlignPos(pos, Alignment(ele.type))} })

\* readVariant(): [tree, readStruct(tree)]
readVariant(buf, pos, opts) ==
    The({ IF sg.err # "" THEN sg
          ELSE The({ IF Len(tree) # 1
                     THEN Failed("variant signature is not a single complete type", pos)
                     ELSE The({ IF r.err # "" THEN r
                                ELSE Got(Arr(<<<<"tree", tree>>, r.val>>), r.pos)
                                : r \in {readStruct(buf, sg.pos, tree, opts, 1, <<>>)} })
                     : tree \in {parseSignature(sg.val).tree} })
          : sg \in {readSimpleType(buf, pos, "g", opts)} })

readTree(buf, pos, node, opts) ==
    CASE node.type \in {"(", "{"} ->
            readStruct(buf, AlignPos(pos, 8), node.child, opts, 1, <<>>)
      [] node.type = "a" ->
            The({ IF p + 4 > Len(buf) THEN Failed("ShortRead", p)
                  ELSE The({ IF n[3][3] # 0 \/ n[3][4] # 0
                             THEN Failed("array length exceeds the remaining buffer", p)
                             ELSE readArray(buf, p + 4, node.child[1],
                                            n[3][1] + 256 * n[3][2], opts)
                             : n \in {FromBytes(Slice(buf, p, 4))} })
                  : p \in {AlignPos(pos, 4)} })
      [] node.type = "v" -> readVariant(buf, pos, opts)
      [] OTHER -> readSimpleType(buf, pos, node.type, opts)

\* DBusBuffer.read(signature) from position pos
read(buf, pos, signature, opts) ==
    The({ IF tree.err # "" THEN Failed(tree.err, pos)
          ELSE readStruct(buf, pos, tree.tree, opts, 1, <<>>)
          : tree \in {parseSignature(signature)} })

DefaultOpts == [ReturnLongjs |-> FALSE]

\* unmarshall(buffer, signature, startPos, options) (lib/unmarshall.ts)
unmarshall(buf, signature, startPos, options) ==
    IF signature = Str(<<>>) THEN Got(<<"Buffer", <<>>>>, startPos)
    ELSE read(buf, startPos, signature, options)

-----------------------------------------------------------------------------
(* The codec round trip: marshall(signature, data), then                   *)
(* unmarshall(buffer, signature, undefined, options), over a table of      *)
(* inputs.  canon is the value list the round trip is to return.           *)

Undefined == <<"undefined">>
Bool(b) == <<"boolean", b>>
Ns(l) == Arr([i \in 1..Len(l) |-> N(l[i])])
Case(sig, data, opts, canon) ==
    [sig |-> Str(sig), data |-> data, opts |-> opts, canon |-> canon]
\* an input that is to come back as it went in
Same(sig, data) == Case(sig, data, DefaultOpts, data)
Longjs == [ReturnLongjs |-> TRUE]
\* an input the marshaller is to refuse
Bad(sig, data) == Case(sig, data, DefaultOpts, Undefined)

Max53 == Num(FALSE, MagPow2m1(53))
Min53 == Num(TRUE, MagPow2m1(53))
Dec53 == <<"9", "0", "0", "7", "1", "9", "9", "2", "5", "4", "7", "4", "0", "9", "9", "1">>
DecMaxS64 == <<"9", "2", "2", "3", "3", "7", "2", "0", "3", "6", "8", "5", "4", "7", "7",
               "5", "8", "0", "7">>
DecMinS64 == <<"-", "9", "2", "2", "3", "3", "7", "2", "0", "3", "6", "8", "5", "4", "7", "7",
               "5", "8", "0", "8">>
DecMaxU64 == <<"1", "8", "4", "4", "6", "7", "4", "4", "0", "7", "3", "7", "0", "9", "5",
               "5", "1", "6", "1", "5">>
Hex53 == <<"0", "x", "1", "F", "F", "F", "F", "F", "F", "F", "F", "F", "F", "F", "F", "F">>
LongMaxS64 == LongOfBits(TwosBytes(Long_MAX_VALUE, 8), FALSE)
LongMinS64 == LongOfBits(TwosBytes(Long_MIN_VALUE, 8), FALSE)
LongMaxU64 == LongOfBits(Repeat(255, 8), TRUE)
LongMaxS53 == LongOfBits(TwosBytes(Max53, 8), FALSE)
LongMinS53 == LongOfBits(TwosBytes(Min53, 8), FALSE)
LongMaxU53 == LongOfBits(TwosBytes(Max53, 8), TRUE)
Triple(l) == <<"object", l[2], l[3], l[4]>>
One(v) == Arr(<<v>>)

ByteCases ==
    [k \in 1..4 |-> Same(<<"y">>, One(N(<<0, 127, 128, 255>>[k])))]
IntCases ==
    << Same(<<"b">>, One(Bool(FALSE))), Same(<<"b">>, One(Bool(TRUE))),
       Same(<<"n">>, One(N(300))), Same(<<"n">>, One(N(-32768))),
       Same(<<"n">>, One(N(32767))), Same(<<"n">>, One(N(-1))),
       Same(<<"q">>, One(N(0))), Same(<<"q">>, One(N(65535))),
       Same(<<"i">>, One(N(1048576))), Same(<<"i">>, One(N(-1))),
       Same(<<"i">>, One(Num(TRUE, MagPow2(31)))),
       Same(<<"i">>, One(Num(FALSE, MagPow2m1(31)))),
       Same(<<"u">>, One(N(1048576))), Same(<<"u">>, One(N(0))),
       Same(<<"u">>, One(Num(FALSE, MagPow2m1(32)))),
       Same(<<"d">>, One(<<"double", <<24, 45, 68, 84, 251, 33, 9, 64>>>>)),
       Same(<<"n", "n">>, Ns(<<10, 1000>>)),
       Same(<<"y", "y", "y", "y">>, Ns(<<0, 127, 128, 255>>)) >>
LongCases ==
    << Same(<<"x">>, One(Max53)), Same(<<"x">>, One(Min53)),
       Same(<<"t">>, One(Max53)), Same(<<"t">>, One(N(0))),
       Case(<<"x">>, One(Str(Dec53)), DefaultOpts, One(Max53)),
       Case(<<"x">>, One(Str(<<"-">> \o Dec53)), DefaultOpts, One(Min53)),
       Case(<<"t">>, One(Str(Dec53)), DefaultOpts, One(Max53)),
       Case(<<"t">>, One(Str(<<"0">>)), DefaultOpts, One(N(0))),
       Case(<<"x">>, One(Str(Hex53)), DefaultOpts, One(Max53)),
       Case(<<"x">>, One(Str(<<"-">> \o Hex53)), DefaultOpts, One(Min53)),
       Case(<<"x">>, One(Str(<<"0", "x", "0", "0", "0", "0">>)), DefaultOpts, One(N(0))),
       Case(<<"t">>, One(Str(Hex53)), DefaultOpts, One(Max53)),
       Case(<<"x">>, One(Str(DecMaxS64)), Longjs, One(LongMaxS64)),
       Case(<<"x">>, One(Str(DecMinS64)), Longjs, One(LongMinS64)),
       Case(<<"t">>, One(Str(DecMaxU64)), Longjs, One(LongMaxU64)),
       Case(<<"x">>, One(LongMaxS53), DefaultOpts, One(Max53)),
       Case(<<"x">>, One(LongMinS53), DefaultOpts, One(Min53)),
       Case(<<"t">>, One(LongMaxU53), DefaultOpts, One(Max53)),
       Case(<<"x">>, One(Max53), Longjs, One(LongMaxS53)),
       Case(<<"t">>, One(Max53), Longjs, One(LongMaxU53)),
       Case(<<"x">>, One(LongMaxS64), Longjs, One(LongMaxS64)),
       Case(<<"t">>, One(LongMaxU64), Longjs, One(LongMaxU64)),
       Case(<<"x">>, One(Triple(LongMaxS64)), Longjs, One(LongMaxS64)),
       Case(<<"x">>, One(Triple(LongMaxS53)), DefaultOpts, One(Max53)),
       Case(<<"t">>, One(Triple(LongMaxU64)), Longjs, One(LongMaxU64)),
       Case(<<"t">>, One(Triple(LongMaxU53)), DefaultOpts, One(Max53)) >>
StringCases ==
    << Same(<<"s">>, One(Str(<<"s", "h", "o", "r", "t", " ", "s", "t", "r">>))),
       Same(<<"s">>, One(Str(<<>>))),
       Same(<<"s">>, One(Str(<<"c", "a", "f", "E9">>))),
       Same(<<"o">>, One(Str(<<"/">>))),
       Same(<<"o">>, One(Str(<<"/", "o", "b", "j", "/", "p">>))),
       Same(<<"g">>, One(Str(<<"x", "x", "t", "(", "t", ")", "s", "a", "{", "u", "s", "}">>))),
       Same(<<"g">>, One(Str(<<>>))),
       Same(<<"y", "s">>, Arr(<<N(7), Str(<<"a", "b">>)>>)),
       Same(<<"s", "s">>, Arr(<<Str(<<"a">>), Str(<<"b", "c">>)>>)) >>
ContainerCases ==
    << Same(<<"(", "y", "y", "y", ")", "y">>, Arr(<<Ns(<<1, 2, 3>>), N(4)>>)),
       Same(<<"y", "(", "y", "y", "y", ")", "y">>, Arr(<<N(5), Ns(<<1, 2, 3>>), N(4)>>)),
       Same(<<"y", "y", "y", "y", "y", "(", "y", "y", "y", ")", "y">>,
            Arr(<<N(5), N(6), N(7), N(8), N(9), Ns(<<1, 2, 3>>), N(4)>>)),
       Same(<<"a", "i">>, One(Ns(<<1, 2, 3, 4, 5, 6, 7>>))),
       Same(<<"a", "i">>, One(Arr(<<>>))),
       Same(<<"a", "a", "i">>, One(Arr(<<Ns(<<300, 400, 500>>), Ns(<<1, 2, 3>>)>>))),
       Same(<<"a", "i", "a", "i">>, Arr(<<Ns(<<1, 2, 3>>), Ns(<<300, 400, 500>>)>>)),
       Same(<<"i", "y", "a", "i">>, Arr(<<N(10), N(100), Ns(<<1, 2, 3>>)>>)),
       Same(<<"a", "(", "i", "y", "a", "i", ")">>,
            One(Arr(<<Arr(<<N(10), N(100), Ns(<<1, 2, 3>>)>>),
                      Arr(<<N(11), N(200), Ns(<<15, 4>>)>>)>>))),
       Same(<<"s", "a", "(", "y", "a", "i", ")">>,
            Arr(<<Str(<<"t", "e", "s", "t">>),
                  Arr(<<Arr(<<N(100), Ns(<<1, 2>>)>>), Arr(<<N(200), Ns(<<15>>)>>)>>)>>)),
       Same(<<"a", "i", "i">>, Arr(<<Ns(<<1, 2, 3>>), N(10)>>)),
       Same(<<"y", "a", "x">>, Arr(<<N(1), One(N(-5))>>)),
       Same(<<"a", "{", "s", "y", "}">>,
            One(Arr(<<Arr(<<Str(<<"a">>), N(1)>>), Arr(<<Str(<<"b", "c">>), N(2)>>)>>))),
       Same(<<"a", "n">>, One(Ns(<<-2, 3>>))),
       Same(<<"y", "a", "d">>, Arr(<<N(1), One(<<"double", <<0, 0, 0, 0, 0, 0, 240, 63>>>>)>>)) >>
VariantCases ==
    << Same(<<"v">>, One(Arr(<<Str(<<"s">>), Str(<<"J", "o", "h", "n">>)>>))),
       Same(<<"v">>, One(Arr(<<Str(<<"i">>), N(30)>>))),
       Same(<<"a", "{", "s", "v", "}">>,
            One(Arr(<<Arr(<<Str(<<"n", "a", "m", "e">>),
                            Arr(<<Str(<<"s">>), Str(<<"J", "o", "h", "n">>)>>)>>),
                      Arr(<<Str(<<"a", "g", "e">>), Arr(<<Str(<<"i">>), N(30)>>)>>)>>))),
       Same(<<"y", "v">>, Arr(<<N(1), Arr(<<Str(<<"a", "y">>), Ns(<<1, 2>>)>>)>>)) >>
BadCases ==
    << Bad(<<"y">>, One(N(256))), Bad(<<"y">>, One(N(-1))),
       Bad(<<"n">>, One(N(32768))), Bad(<<"n">>, One(N(-32769))),
       Bad(<<"q">>, One(N(65536))), Bad(<<"q">>, One(N(-1))),
       Bad(<<"i">>, One(Num(FALSE, MagPow2(31)))),
       Bad(<<"i">>, One(Num(TRUE, MagInc(MagPow2(31))))),
       Bad(<<"u">>, One(N(-1))), Bad(<<"u">>, One(Num(FALSE, MagPow2(32)))),
       Bad(<<"y">>, One(<<"fraction">>)), Bad(<<"y">>, One(Str(<<"n">>))),
       Bad(<<"d">>, One(<<"NaN">>)), Bad(<<"d">>, One(<<"Infinity", FALSE>>)),
       Bad(<<"d">>, One(<<"Infinity", TRUE>>)), Bad(<<"d">>, One(Str(<<"n">>))),
       Bad(<<"s">>, One(Str(<<"a", "s", "NUL", "d", "f">>))),
       Bad(<<"o">>, One(Str(<<"/", "a", "NUL">>))),
       Bad(<<"g">>, One(Str(<<"a", "s", "NUL", "i">>))),
       Bad(<<"g">>, One(Str(Repeat("i", 256)))),
       Bad(<<"g">>, One(Str(Repeat("i", 300)))),
       Bad(<<"g">>, One(Str(<<"c", "c", "c">>))),
       Bad(<<"g">>, One(Str(<<"i", "i", "i", "(", "i">>))),
       Bad(<<"s">>, One(N(3))),
       Bad(<<"y", "y">>, Arr(<<N(1), N(256)>>)),
       Bad(<<"x">>, One(Num(FALSE, MagPow2(53)))),
       Bad(<<"t">>, One(N(-1))),
       Bad(<<"x">>, One(LongMaxU53)), Bad(<<"t">>, One(LongMaxS53)) >>

Cases == ByteCases \o IntCases \o LongCases \o StringCases \o ContainerCases
            \o VariantCases \o BadCases

NoResult == Failed("", 0)

InitCodec ==
    /\ \E k \in 1..Len(Cases) : cCase = Cases[k]
    /\ cBuf = <<>>
    /\ cBack = NoResult
    /\ cPc = "start"

\* marshall(signature, data)
Marshall ==
    /\ cPc = "start"
    /\ \E m \in {marshallData(cCase.sig, cCase.data, 0)} :
           /\ cBuf' = m.buf
           /\ cPc' = IF m.err = "" THEN "marshalled" ELSE "threw"
    /\ UNCHANGED <<cCase, cBack>>
    /\ UNCHANGED exceptCodec

\* unmarshall(buffer, signature, undefined, options)
Unmarshall ==
    /\ cPc = "marshalled"
    /\ cBack' = unmarshall(cBuf, cCase.sig, 0, cCase.opts)
    /\ cPc' = "unmarshalled"
    /\ UNCHANGED <<cCase, cBuf>>
    /\ UNCHANGED exceptCodec

-----------------------------------------------------------------------------
(* One call of a simple marshaller on a put stream that already holds      *)
(* bytes: MakeSimpleMarshaller(type).marshall(ps, data).                   *)

\* the largest running offset a call starts at
MaxOffset == 8

\* 64-bit inputs beyond the round-trip table
Pow2_63 == <<"9", "2", "2", "3", "3", "7", "2", "0", "3", "6", "8", "5", "4", "7", "7",
             "5", "8", "0", "8">>
Pow2_64 == <<"1", "8", "4", "4", "6", "7", "4", "4", "0", "7", "3", "7", "0", "9", "5",
             "5", "1", "6", "1", "6">>
LongInputs ==
    { <<"x", Str(Pow2_63)>>, <<"x", Str(<<"-">> \o DecMaxS64 )>>,
      <<"x", Str(DecMaxU64)>>, <<"x", Str(Pow2_64)>>,
      <<"t", Str(Pow2_64)>>, <<"t", Str(<<"-", "1">>)>>, <<"t", Str(DecMaxS64)>>,
      <<"x", Num(TRUE, MagPow2(53))>>, <<"t", Num(FALSE, MagPow2(53))>>,
      <<"x", LongMaxU64>>, <<"t", LongMaxS64>>, <<"t", LongMinS64>>,
      <<"x", Triple(LongMaxU53)>>, <<"x", Triple(LongMaxU64)>>,
      <<"t", Triple(LongMaxS53)>>, <<"t", Triple(LongMinS64)>>,
      <<"x", Str(<<"0", "x">> \o Repeat("F", 16))>>,
      <<"t", Str(<<"0", "x", "1">> \o Repeat("0", 16))>>,
      <<"t", Str(<<"0", "x">> \o Repeat("F", 16))>>,
      <<"x", Undefined>>, <<"t", Bool(TRUE)>> }

\* <<type, value>>: the one-value rows of the round-trip table, and LongInputs
\* object paths and strings that are none
PathInputs ==
    { <<"o", Str(chars)>> :
        chars \in { <<"/">>, <<"/", "o", "b", "j", "/", "p">>, <<"/", "a", "_", "1", "/", "B">>,
                    <<"i", "n", "v", "/", "o", "b", "j", "/", "p">>, <<>>, <<"a">>,
                    <<"/", "a", "/">>, <<"/", "/", "a">>, <<"/", "a", "-", "b">>,
                    <<"/", "a", ".", "b">>, <<"/", "a", " ">> } }
\* for every integer type: both bounds of its range and their outer
\* neighbours, values inside, and values that are no integer
IntegerInputs ==
    UNION { { <<type, v>> :
                v \in { MinValue(type), MaxValue(type),
                        Num(TRUE, MagInc(MinValue(type)[3])),
                        Num(FALSE, MagInc(MaxValue(type)[3])),
                        N(0), N(10), N(-2), N(1000), N(-1000),
                        <<"fraction">>, <<"NaN">>, <<"Infinity", FALSE>>,
                        <<"Infinity", TRUE>>, Str(<<"1">>), Bool(TRUE), Undefined } }
            : type \in {"y", "n", "q", "i", "u"} }
\* native numbers for the 64-bit types: the ends of the 53-bit window,
\* their outer neighbours, numbers that fit in 64 bits, and non-integers
NumberInputs ==
    { <<type, v>> :
        type \in {"x", "t"},
        v \in { Num(FALSE, MagPow2m1(53)), Num(TRUE, MagPow2m1(53)),
                Num(FALSE, MagPow2(53)), Num(TRUE, MagPow2(53)),
                Num(FALSE, MagPow2(62)), Num(TRUE, MagPow2(62)),
                N(0), N(1), N(-1), N(1000), <<"fraction">>, <<"NaN">>,
                <<"Infinity", FALSE>>, <<"Infinity", TRUE>> } }
\* strings for s and o, and signatures for g
StringInputs ==
    { <<"s", Str(<<>>)>>, <<"s", Str(<<"E9", "a", "E9">>)>>, <<"s", Str(Repeat("a", 300))>>,
      <<"o", Str(<<"/", "E9">>)>>, <<"g", Str(<<>>)>>, <<"g", Str(<<"s">>)>>,
      <<"g", Str(<<"a", "{", "s", "v", "}">>)>>, <<"g", Str(<<"E9">>)>>,
      <<"s", Str(<<"a", "NUL">>)>>, <<"g", N(1)>> }
\* 64-bit values written as strings with and without leading zeroes
ZeroInputs ==
    { <<type, Str(chars)>> :
        type \in {"x", "t"},
        chars \in { <<"7">>, <<"0", "0", "7">>, <<"0", "0", "0">>, <<"0">>,
                    <<"-", "7">>, <<"-", "0", "0", "7">>,
                    <<"0", "x", "7">>, <<"0", "x", "0", "0", "7">>,
                    <<"0", "x", "F">>, <<"0", "x", "0", "F">>, <<"0", "x", "0", "0", "F", "F">>,
                    <<"-", "0", "x", "7">>, <<"-", "0", "x", "0", "7">>,
                    <<"0", "x", "0", "0", "1", "0">> } }
SimpleInputs ==
    { <<Cases[k].sig[2][1], Cases[k].data[2][1]>> :
        k \in {j \in 1..Len(Cases) :
                  /\ Len(Cases[j].sig[2]) = 1
                  /\ Cases[j].sig[2][1] \in SimpleTypes} }
      \cup LongInputs \cup PathInputs \cup IntegerInputs
      \cup NumberInputs \cup StringInputs \cup ZeroInputs

\* a put stream that holds n bytes, none of them zero
Filled(n) == AddOffset(put(Put, Repeat(255, n)), n)

InitSimple ==
    /\ \E in \in SimpleInputs : pSig = in[1] /\ pData = in[2]
    /\ \E n \in 0..MaxOffset : pBefore = Filled(n)
    /\ pPs = pBefore
    /\ pErr = ""
    /\ pPc = "start"

\* marshaller.marshall(ps, data)
MarshallSimple ==
    /\ pPc = "start"
    /\ \E m \in {marshallSimple(pPs, pSig, pData)} :
           /\ pPs' = m.ps
           /\ pErr' = m.err
           /\ pPc' = IF m.err = "" THEN "returned" ELSE "threw"
    /\ UNCHANGED <<pSig, pData, pBefore>>
    /\ UNCHANGED exceptSimple

-----------------------------------------------------------------------------
(* One put stream used for several calls, as the container writer uses it: *)
(* put() makes the stream, the caller sets _offset to the position the     *)
(* bytes will have in the message, and align and the simple marshallers    *)
(* are called on it in any order.                                          *)

MaxPutCalls == 3
MaxStart == 3
Alignments == {2, 4, 8}

\* one value for every simple type, a string of more bytes than
\* characters, and values the marshallers refuse
StreamInputs ==
    { <<"y", N(7)>>, <<"b", Bool(TRUE)>>, <<"n", N(-2)>>, <<"q", N(1000)>>,
      <<"i", N(-1000)>>, <<"u", N(10)>>, <<"t", N(1)>>, <<"x", N(-1)>>,
      <<"d", <<"double", <<24, 45, 68, 84, 251, 33, 9, 64>>>>>>,
      <<"s", Str(<<"E9", "a">>)>>, <<"o", Str(<<"/">>)>>, <<"g", Str(<<"s">>)>>,
      <<"y", N(1000)>>, <<"s", Str(<<"a", "NUL">>)>> }

IdlePut == wStart = 0 /\ wPs = Put /\ wCalls = <<>> /\ wThrew = FALSE

\* const ps = put(); ps._offset = offset
InitPut ==
    /\ wStart \in 0..MaxStart
    /\ wPs = [Put EXCEPT !._offset = wStart]
    /\ wCalls = <<>>
    /\ wThrew = FALSE

\* align(ps, n)
AlignStream ==
    /\ Len(wCalls) < MaxPutCalls
    /\ \E n \in Alignments :
           /\ wPs' = align(wPs, n)
           /\ wCalls' = Append(wCalls, <<"align", N(n)>>)
    /\ UNCHANGED <<wStart, wThrew>>
    /\ UNCHANGED exceptPut

\* MakeSimpleMarshaller(signature).marshall(ps, data); a throw is caught
\* by the caller, who may go on using the stream
WriteStream ==
    /\ Len(wCalls) < MaxPutCalls
    /\ \E in \in StreamInputs :
           \E m \in {marshallSimple(wPs, in[1], in[2])} :
               /\ wPs' = m.ps
               /\ wThrew' = (wThrew \/ m.err # "")
               /\ wCalls' = Append(wCalls, in)
    /\ UNCHANGED wStart
    /\ UNCHANGED exceptPut

-----------------------------------------------------------------------------
(* The message codec (lib/message.ts, lib/constants.ts).  A message is a   *)
(* record with every key a message can carry; an absent key holds          *)
(* Undefined.                                                              *)

methodCall == 1
methodReturn == 2
error == 3
signal == 4
protocolVersion == 1
endianness_le == 108
noReplyExpected == 1

\* headerTypeName[1..8] (index 0 is null)
headerTypeName ==
    <<"path", "interface", "member", "errorName", "replySerial", "destination",
      "sender", "signature">>
headerTypeId(fieldName) == IndexIn(headerTypeName, fieldName)
fieldSignature(fieldName) ==
    CASE fieldName = "path" -> "o"
      [] fieldName = "replySerial" -> "u"
      [] fieldName = "signature" -> "g"
      [] OTHER -> "s"

MessageKeys ==
    {"serial", "type", "flags", "body"} \cup {headerTypeName[i] : i \in 1..Len(headerTypeName)}
\* var message = {}
EmptyMessage == [k \in MessageKeys |-> Undefined]

\* the entries of the header field array, in headerTypeName order
HeaderFields(message) ==
    [i \in 1..Len(SelectSeq(headerTypeName, LAMBDA f : Truthy(message[f]))) |->
        The({ Arr(<<N(headerTypeId(f)), Arr(<<Str(<<fieldSignature(f)>>), message[f]>>)>>)
              : f \in {SelectSeq(headerTypeName, LAMBDA g : Truthy(message[g]))[i]} })]

\* a header length that is left as it is
headerLenUnaligned(length) == length
\* ((headerBuff.length + fieldsBuff.length + 7) >> 3) << 3
headerLenAligned(length) == ((length + 7) \div 8) * 8

\* a test that takes every serial
anySerial(message) == TRUE
\* !message.serial, negated
hasSerial(message) == Truthy(message.serial)

\* message.marshall(message): [err, buf]
marshallMessage(message) ==
    IF ~hasSerial(message) THEN [err |-> "Missing or invalid serial", buf |-> <<>>]
    ELSE The({ The({
        IF body.err # "" THEN body
        ELSE IF headerBuff.err # "" THEN headerBuff
        ELSE IF fieldsBuff.err # "" THEN fieldsBuff
        ELSE [err |-> "",
              buf |-> headerBuff.buf \o fieldsBuff.buf
                      \o Repeat(0, headerLenAligned(Len(headerBuff.buf) + Len(fieldsBuff.buf))
                                   - (Len(headerBuff.buf) + Len(fieldsBuff.buf)))
                      \o body.buf]
        : headerBuff \in {marshallData(Str(<<"y", "y", "y", "y", "u", "u">>),
                            Arr(<<N(endianness_le),
                                  IF Truthy(message.type) THEN message.type ELSE N(methodCall),
                                  IF Truthy(message.flags) THEN message.flags ELSE N(0),
                                  N(protocolVersion), N(Len(body.buf)), message.serial>>),
                            0)},
          fieldsBuff \in {marshallData(Str(<<"a", "(", "y", "v", ")">>),
                            Arr(<<Arr(HeaderFields(message))>>), 12)} })
        : body \in {IF Truthy(message.signature) /\ Truthy(message.body)
                    THEN marshallData(message.signature, message.body, 0)
                    ELSE [err |-> "", buf |-> <<>>]} })

\* a small number as an index
Small(v) == v[3][1] + 256 * v[3][2]
\* a[k] of a JavaScript array, k from 0
At(a, k) == a[2][k + 1]

RECURSIVE SetHeaders(_, _, _)
\* the loop over the decoded header field entries i..: each known field id
\* sets message[headerName] = entry[1][1][0]
SetHeaders(message, entries, i) ==
    IF i > Len(entries) THEN message
    ELSE The({ SetHeaders(IF id \in 1..Len(headerTypeName)
                          THEN [message EXCEPT ![headerTypeName[id]] =
                                                    At(At(At(entries[i], 1), 1), 0)]
                          ELSE message,
                          entries, i + 1)
               : id \in {Small(At(entries[i], 0))} })

\* message.unmarshall(buff, opts): [err, msg]
unmarshallMessage(buff, opts) ==
    The({ IF headers.err # "" THEN [err |-> headers.err, msg |-> EmptyMessage]
          ELSE The({ The({ [err |-> body.err, msg |-> [message EXCEPT !.body = body.val]]
                           : body \in {read(buff, AlignPos(headers.pos, 8),
                                            message.signature, opts)} })
                     : message \in {[SetHeaders(EmptyMessage, At(headers.val, 6)[2], 1)
                                     EXCEPT !.type = At(headers.val, 1),
                                            !.flags = At(headers.val, 2),
                                            !.serial = At(headers.val, 5)]} })
          : headers \in {read(buff, 0, Str(<<"y", "y", "y", "y", "u", "u", "a", "(", "y", "v", ")">>),
                              opts)} })

\* the strings of the messages
Chars_path == <<"/", "o", "r", "g", "/", "a">>
Chars_interface == <<"o", "r", "g", ".", "a", ".", "I">>
Chars_member == <<"H", "e", "l", "l", "o">>
Chars_errorName == <<"o", "r", "g", ".", "a", ".", "E", "r", "r">>
Chars_destination == <<"o", "r", "g", ".", "a">>
Chars_sender == <<":", "1", ".", "5">>

\* the bodies a message carries: none, or a signature and a value list
Bodies ==
    << [signature |-> Undefined, body |-> Undefined],
       [signature |-> Str(<<"s">>), body |-> One(Str(<<"h", "i">>))],
       [signature |-> Str(<<"u", "s">>), body |-> Arr(<<N(5), Str(<<"a", "b">>)>>)],
       [signature |-> Str(<<"a", "i">>), body |-> One(Ns(<<1, 2, 3>>))] >>

\* a complete message of a type: the header fields the type requires,
\* with or without a destination, and one of the bodies
Message(type, flags, serial, dest, b) ==
    [EmptyMessage EXCEPT
        !.type = N(type), !.flags = N(flags), !.serial = N(serial),
        !.path = IF type \in {methodCall, signal} THEN Str(Chars_path) ELSE Undefined,
        !.interface = IF type \in {methodCall, signal} THEN Str(Chars_interface) ELSE Undefined,
        !.member = IF type \in {methodCall, signal} THEN Str(Chars_member) ELSE Undefined,
        !.errorName = IF type = error THEN Str(Chars_errorName) ELSE Undefined,
        !.replySerial = IF type \in {methodReturn, error} THEN N(serial) ELSE Undefined,
        !.destination = IF dest THEN Str(Chars_destination) ELSE Undefined,
        !.sender = IF type # methodCall THEN Str(Chars_sender) ELSE Undefined,
        !.signature = Bodies[b].signature,
        !.body = Bodies[b].body]

\* what the streaming decoder has delivered: nothing yet
NotStreamed == [ran |-> FALSE, delivered |-> <<>>, err |-> ""]

\* the serials the messages carry: 1..MaxSerial
MaxSerial == 2

InitMessage ==
    /\ \E type \in {methodCall, methodReturn, error, signal}, flags \in {0, noReplyExpected},
          serial \in 1..MaxSerial, dest \in BOOLEAN, b \in 1..Len(Bodies) :
            mMsg = Message(type, flags, serial, dest, b)
    /\ mBuf = <<>>
    /\ mBack = EmptyMessage
    /\ mPc = "start"
    /\ mStreamed = NotStreamed

\* the messages a caller can build that are not valid: a complete message
\* with one of the headers its type requires left out, with a type that is
\* no message type, with a body but no signature, or without a usable serial
RequiredHeaders(type) ==
    CASE type = methodCall -> {"path", "member"}
      [] type = methodReturn -> {"replySerial"}
      [] type = error -> {"replySerial", "errorName"}
      [] type = signal -> {"path", "interface", "member"}
      [] OTHER -> {}
unknownType == 5
\* what a message without a usable serial holds as its serial: nothing, 0,
\* or 2^32, which is 0 in 32 bits
NoSerials == {Undefined, N(0), Num(FALSE, MagPow2(32))}
MessageTypes == {methodCall, methodReturn, error, signal}
InitInvalid ==
    /\ \E type \in MessageTypes, serial \in 1..MaxSerial, dest \in BOOLEAN,
          b \in 1..Len(Bodies) :
        \/ \E missing \in RequiredHeaders(type) :
             mMsg = [Message(type, 0, serial, dest, b) EXCEPT ![missing] = Undefined]
        \/ mMsg = [Message(type, 0, serial, dest, b) EXCEPT !.type = N(unknownType)]
        \/ b > 1 /\ mMsg = [Message(type, 0, serial, dest, b) EXCEPT !.signature = Undefined]
        \/ mMsg \in {[Message(type, 0, serial, dest, b) EXCEPT !.serial = none]
                      : none \in NoSerials}
    /\ mBuf = <<>>
    /\ mBack = EmptyMessage
    /\ mPc = "start"
    /\ mStreamed = NotStreamed

\* message.marshall(message)
MessageMarshall ==
    /\ mPc = "start"
    /\ \E m \in {marshallMessage(mMsg)} :
           /\ mBuf' = m.buf
           /\ mPc' = IF m.err = "" THEN "marshalled" ELSE "threw"
    /\ UNCHANGED <<mMsg, mBack, mStreamed>>
    /\ UNCHANGED exceptMessage

\* message.unmarshall(buffer)
MessageUnmarshall ==
    /\ mPc = "marshalled"
    /\ \E u \in {unmarshallMessage(mBuf, DefaultOpts)} :
           /\ mBack' = u.msg
           /\ mPc' = IF u.err = "" THEN "unmarshalled" ELSE "rejected"
    /\ UNCHANGED <<mMsg, mBuf, mStreamed>>
    /\ UNCHANGED exceptMessage

-----------------------------------------------------------------------------
(* unmarshalMessages (lib/message.ts): the streaming reader.  The stream   *)
(* holds the bytes that have arrived and are not yet read; read(n) hands   *)
(* out n bytes when it holds that many, and null otherwise.                *)

\* the parsed header field signature, a(yv) (lib/header-signature.json)
headerSignature == parseSignature(Str(<<"a", "(", "y", "v", ")">>)).tree

\* buf.readUInt32LE(offset)
readUInt32LE(buf, offset) ==
    buf[offset + 1] + 256 * buf[offset + 2] + 65536 * buf[offset + 3]
        + 16777216 * buf[offset + 4]

\* a frame length that forgets to pad the header fields to 8 bytes
fieldsAndBodyLengthUnpadded(header) == readUInt32LE(header, 12) + readUInt32LE(header, 4)

\* fieldsLengthPadded + bodyLength of a fixed header
fieldsAndBodyLength(header) ==
    (((readUInt32LE(header, 12) + 7) \div 8) * 8) + readUInt32LE(header, 4)

\* the else branch after a successful read: the message decoded from the
\* fixed header and the bytes after it, [err, msg]
decodeFrame(header, fieldsAndBody, opts) ==
    The({ IF fields.err # "" THEN [err |-> fields.err, msg |-> EmptyMessage]
          ELSE The({ IF readUInt32LE(header, 4) > 0 /\ Truthy(message.signature)
                     THEN The({ [err |-> body.err, msg |-> [message EXCEPT !.body = body.val]]
                                : body \in {read(fieldsAndBody, AlignPos(fields.pos, 8),
                                                 message.signature, opts)} })
                     ELSE [err |-> "", msg |-> message]
                     : message \in
                         {[SetHeaders([EmptyMessage EXCEPT
                                          !.serial = FromBytes(Slice(header, 8, 4))],
                                      fields.val[2], 1)
                           EXCEPT !.type = FromBytes(Slice(header, 1, 1)),
                                  !.flags = FromBytes(Slice(header, 2, 1))]} })
          : fields \in {readArray(fieldsAndBody, 0, headerSignature[1].child[1],
                                  readUInt32LE(header, 12), opts)} })

RECURSIVE readable(_, _)
\* the "readable" handler: the while loop, run until a read returns null
\* or a decode throws.  r is [buf, state, header, delivered, err].
readable(r, opts) ==
    IF r.state = 0
    THEN IF Len(r.buf) < 16 THEN r
         ELSE readable([r EXCEPT !.header = SubSeq(r.buf, 1, 16),
                                 !.buf = SubSeq(r.buf, 17, Len(r.buf)),
                                 !.state = 1], opts)
    ELSE The({ IF n = 0 \/ Len(r.buf) < n THEN r
               ELSE The({ IF d.err # ""
                          THEN [r EXCEPT !.buf = SubSeq(r.buf, n + 1, Len(r.buf)),
                                         !.state = 0, !.err = d.err]
                          ELSE readable([r EXCEPT !.buf = SubSeq(r.buf, n + 1, Len(r.buf)),
                                                  !.state = 0,
                                                  !.delivered = Append(@, d.msg)], opts)
                          : d \in {decodeFrame(r.header, SubSeq(r.buf, 1, n), opts)} })
               : n \in {fieldsAndBodyLength(r.header)} })

\* unmarshalMessages(stream, onMessage) on a stream that holds the frame:
\* the readable handler, run once with all bytes there
StreamUnmarshall ==
    /\ mPc \in {"marshalled", "unmarshalled", "rejected"}
    /\ ~mStreamed.ran
    /\ \E r \in {readable([buf |-> mBuf, state |-> 0, header |-> <<>>,
                            delivered |-> <<>>, err |-> ""], DefaultOpts)} :
           mStreamed' = [ran |-> TRUE, delivered |-> r.delivered, err |-> r.err]
    /\ UNCHANGED <<mMsg, mBuf, mBack, mPc>>
    /\ UNCHANGED exceptMessage

\* the messages a peer sends
StreamMessages ==
    << Message(methodCall, 0, 1, TRUE, 1),
       Message(methodReturn, noReplyExpected, 2, FALSE, 2),
       Message(signal, 0, 2, FALSE, 3) >>
\* how many frames a stream carries
MaxFrames == 2
\* a chunk has 1..MaxChunk bytes, or as many as a fixed header, or is the
\* whole stream at once
MaxChunk == 3

\* the bytes of the stream
sWire == Flatten(sBytes)

InitStream ==
    /\ \E k \in 1..MaxFrames : \E f \in [1..k -> 1..Len(StreamMessages)] :
           sFrames = [i \in 1..k |-> StreamMessages[f[i]]]
    /\ sBytes = [i \in 1..Len(sFrames) |-> marshallMessage(sFrames[i]).buf]
    /\ sArrived = 0
    /\ sBuf = <<>>
    /\ sState = 0
    /\ sHeader = <<>>
    /\ sDelivered = <<>>
    /\ sErr = ""

\* a chunk of n bytes arrives and the "readable" handler runs
Push ==
    /\ sErr = ""
    /\ \E w \in {sWire} :
       \E n \in (1..MaxChunk) \cup {16} \cup (IF sArrived = 0 THEN {Len(w)} ELSE {}) :
        /\ sArrived + n <= Len(w)
        /\ sArrived' = sArrived + n
        /\ \E r \in {readable([buf |-> sBuf \o SubSeq(w, sArrived + 1, sArrived + n),
                               state |-> sState, header |-> sHeader,
                               delivered |-> sDelivered, err |-> ""], DefaultOpts)} :
            /\ sBuf' = r.buf
            /\ sState' = r.state
            /\ sHeader' = r.header
            /\ sDelivered' = r.delivered
            /\ sErr' = r.err
    /\ UNCHANGED <<sFrames, sBytes>>
    /\ UNCHANGED exceptStream

-----------------------------------------------------------------------------
(* DBusInterface.on / off (lib/introspect): signal subscription through    *)
(* the Bus interface.  The bus runs the callback of addMatch/removeMatch   *)
(* either inside the call or later, when the broker has answered.          *)

\* getMatchRule(objectPath, interfaceName, signalName): the pieces of the
\* template string
getMatchRule(objectPath, interfaceName, signalName) ==
    <<"type='signal',path='", objectPath, "',interface='", interfaceName,
      "',member='", signalName, "'">>

\* this.parent.name, this.name and the signal listened to
parentName == "/svc"
interfaceName == "com.x.Svc"
signalName == "StateChanged"
\* the handlers a user registers
Handlers == {"h1", "h2"}
\* how many on/off calls a run makes
MaxOps == 4

\* EventEmitter.removeListener: drops the most recently added instance
removeListener(listeners, wrapped) ==
    The({ IF last = 0 THEN listeners
          ELSE SubSeq(listeners, 1, last - 1) \o SubSeq(listeners, last + 1, Len(listeners))
          : last \in {Max({0} \cup {i \in 1..Len(listeners) : listeners[i] = wrapped})} })

\* a second signal of the interface
otherSignalName == "Closed"
Signals == {signalName, otherSignalName}
\* the subscriptions a user makes: <<handler, signal>>
Subscriptions == {<<"h1", signalName>>, <<"h2", signalName>>, <<"h1", otherSignalName>>}

InitIface ==
    /\ iHandlerMap = [h \in Handlers |-> 0]
    /\ iWrappers = 0
    /\ iListeners = [name \in Signals |-> <<>>]
    /\ iCallbacks = <<>>
    /\ iCalls = <<>>
    /\ iOps = <<>>
    /\ iThrown = 0

\* on(signalName, handler); a wrapper is <<handler, n>>, the n-th made
On ==
    /\ Len(iOps) < MaxOps
    /\ \E sub \in Subscriptions, sync \in BOOLEAN, failed \in BOOLEAN :
       \E handler \in {sub[1]}, name \in {sub[2]} :
       \E wrappedHandler \in {IF iHandlerMap[handler] # 0 THEN iHandlerMap[handler]
                              ELSE iWrappers + 1} :
        /\ iOps' = Append(iOps, <<"on", handler, name>>)
        /\ iHandlerMap' = [iHandlerMap EXCEPT ![handler] = wrappedHandler]
        /\ iWrappers' = IF iHandlerMap[handler] # 0 THEN iWrappers ELSE iWrappers + 1
        /\ IF Len(iListeners[name]) = 0
           THEN /\ iCalls' = Append(iCalls, <<"addMatch",
                                  getMatchRule(parentName, interfaceName, name)>>)
                /\ IF sync
                   THEN /\ iListeners' =
                              IF failed THEN iListeners
                              ELSE [iListeners EXCEPT
                                       ![name] = Append(@, <<handler, wrappedHandler>>)]
                        /\ iThrown' = iThrown + (IF failed THEN 1 ELSE 0)
                        /\ UNCHANGED iCallbacks
                   ELSE /\ iCallbacks' = Append(iCallbacks,
                                                [method |-> "addMatch", handler |-> handler,
                                                 wrappedHandler |-> wrappedHandler,
                                                 signalName |-> name])
                        /\ UNCHANGED <<iListeners, iThrown>>
           ELSE /\ iListeners' = [iListeners EXCEPT
                                     ![name] = Append(@, <<handler, wrappedHandler>>)]
                /\ UNCHANGED <<iCalls, iCallbacks, iThrown>>
    /\ UNCHANGED exceptIface

\* off(signalName, handler)
Off ==
    /\ Len(iOps) < MaxOps
    /\ \E sub \in Subscriptions, sync \in BOOLEAN, failed \in BOOLEAN :
       \E handler \in {sub[1]}, name \in {sub[2]} :
        /\ iOps' = Append(iOps, <<"off", handler, name>>)
        /\ IF iHandlerMap[handler] = 0
           THEN UNCHANGED <<iHandlerMap, iListeners, iCalls, iCallbacks, iThrown>>
           ELSE \E left \in {removeListener(iListeners[name],
                                            <<handler, iHandlerMap[handler]>>)} :
                /\ iListeners' = [iListeners EXCEPT ![name] = left]
                /\ IF Len(left) = 0
                   THEN /\ iCalls' = Append(iCalls, <<"removeMatch",
                                          getMatchRule(parentName, interfaceName, name)>>)
                        /\ IF sync
                           THEN /\ iHandlerMap' = IF failed THEN iHandlerMap
                                                  ELSE [iHandlerMap EXCEPT ![handler] = 0]
                                /\ iThrown' = iThrown + (IF failed THEN 1 ELSE 0)
                                /\ UNCHANGED iCallbacks
                           ELSE /\ iCallbacks' = Append(iCallbacks,
                                                        [method |-> "removeMatch",
                                                         handler |-> handler,
                                                         wrappedHandler |-> iHandlerMap[handler],
                                                         signalName |-> name])
                                /\ UNCHANGED <<iHandlerMap, iThrown>>
                   ELSE UNCHANGED <<iHandlerMap, iCalls, iCallbacks, iThrown>>
    /\ UNCHANGED iWrappers
    /\ UNCHANGED exceptIface

\* the bus runs the callback it was given, oldest first
Callback ==
    /\ iCallbacks # <<>>
    /\ \E failed \in BOOLEAN : \E cb \in {Head(iCallbacks)} :
        /\ iCallbacks' = Tail(iCallbacks)
        /\ IF failed
           THEN /\ iThrown' = iThrown + 1
                /\ UNCHANGED <<iListeners, iHandlerMap>>
           ELSE /\ iThrown' = iThrown
                /\ IF cb.method = "addMatch"
                   THEN /\ iListeners' =
                              [iListeners EXCEPT
                                  ![cb.signalName] = Append(@, <<cb.handler, cb.wrappedHandler>>)]
                        /\ UNCHANGED iHandlerMap
                   ELSE /\ iHandlerMap' = [iHandlerMap EXCEPT ![cb.handler] = 0]
                        /\ UNCHANGED iListeners
    /\ UNCHANGED <<iWrappers, iCalls, iOps>>
    /\ UNCHANGED exceptIface

-----------------------------------------------------------------------------
(* DBusInterface.call / getProperty / setProperty (lib/introspect).  A     *)
(* message is a record with the keys that were set.  A callback run is the *)
(* list of its arguments: <<error>> or <<Null, result>>.                   *)

Null == <<"null">>
DBusError(errorName) == <<"DBusError", errorName>>

\* this.parent.service.name, and the interface's method and property tables
serviceName == "com.x"
methods ==
    [TestMethod |-> [name |-> "TestMethod", inSignature |-> "ss", outSignature |-> "u"],
     NoArgsMethod |-> [name |-> "NoArgsMethod", inSignature |-> "", outSignature |-> "s"]]
properties ==
    [Status |-> [name |-> "Status", type |-> "u", access |-> "read"],
     Volume |-> [name |-> "Volume", type |-> "u", access |-> "readwrite"]]
\* the names a user passes, one of them in neither table
MemberNames == {"TestMethod", "NoArgsMethod", "Status", "Volume", "Missing"}
\* the argument lists a user passes to call
ArgLists == {<<>>, <<"arg1", "arg2">>}
\* how many calls a run makes on the interface
MaxProxyOps == 2

\* a call message that always carries a signature and a body
callMessageSigned(methodName, args) ==
    [destination |-> serviceName, path |-> parentName, interface |-> interfaceName,
     member |-> methodName,
     signature |-> IF methodName \in DOMAIN methods
                   THEN methods[methodName].inSignature ELSE "",
     body |-> args]
\* the message call(methodName, args, callback) hands to bus.invoke
callMessage(methodName, args) ==
    IF methodName \in DOMAIN methods /\ methods[methodName].inSignature # ""
    THEN [destination |-> serviceName, path |-> parentName, interface |-> interfaceName,
          member |-> methodName, signature |-> methods[methodName].inSignature,
          body |-> args]
    ELSE [destination |-> serviceName, path |-> parentName, interface |-> interfaceName,
          member |-> methodName]

\* the Properties.Set message of setProperty
setMessage(propertyName, type, value) ==
    [destination |-> serviceName, path |-> parentName,
     interface |-> "org.freedesktop.DBus.Properties",
     member |-> "Set", signature |-> "ssv",
     body |-> <<interfaceName, propertyName, <<type, value>>>>]

\* a setProperty that does not look the property up
setPropertyUnchecked(propertyName, value, callback) ==
    [invoked |-> <<setMessage(propertyName, "u", value)>>, completed |-> <<>>]
\* setProperty(propertyName, value, callback?): the messages handed to
\* bus.invoke and the callback runs made before it returns
setProperty(propertyName, value, callback) ==
    IF propertyName \notin DOMAIN properties
    THEN [invoked |-> <<>>,
          completed |-> IF callback
                        THEN <<<<DBusError("org.freedesktop.DBus.Error.UnknownProperty")>>>>
                        ELSE <<>>]
    ELSE [invoked |-> <<setMessage(propertyName, properties[propertyName].type, value)>>,
          completed |-> <<>>]

\* signature.length of a variant's first element: a string's characters or
\* a parsed signature's top-level nodes
length(signature) == Len(signature[2])

\* a Get callback that hands on the value list as it came
getPropertyNoUnwrap(reply) ==
    IF reply[1] # Null THEN <<reply[1]>> ELSE <<Null, reply[2][2][2]>>
\* the callback getProperty hands to bus.invoke, run with the arguments
\* reply: the arguments the user's callback is run with
getPropertyCallback(reply) ==
    IF reply[1] # Null THEN <<reply[1]>>
    ELSE IF length(reply[2][2][1]) = 1 THEN <<Null, reply[2][2][2][2][1]>>
    ELSE <<Null, reply[2][2][2]>>

\* the variants a Get reply carries: [tree, values] as readVariant returns
\* them, and [signature, values] as the test's bus returns it
Variant(chars, values) == Arr(<<<<"tree", parseSignature(Str(chars)).tree>>, Arr(values)>>)
Variants ==
    { Variant(<<"u">>, <<N(42)>>),
      Variant(<<"a", "s">>, <<Arr(<<Str(<<"a">>), Str(<<"b">>)>>)>>),
      Variant(<<"(", "u", "s", ")">>, <<Arr(<<N(1), Str(<<"a">>)>>)>>),
      Variant(<<"u", "s">>, <<N(1), Str(<<"a">>)>>),
      Arr(<<Str(<<"u">>), Arr(<<N(42)>>)>>) }
\* the arguments the bus runs an invoke's callback with
Replies(callback) ==
    {<<DBusError("org.freedesktop.DBus.Error.Failed")>>}
        \cup (IF callback = "get" THEN {<<Null, v>> : v \in Variants}
              ELSE {<<Null, Str(<<"r">>)>>})

InitProxy ==
    /\ xOps = <<>>
    /\ xInvoked = <<>>
    /\ xAnswered = 0
    /\ xCompleted = <<>>

\* call(methodName, args, callback)
Call ==
    /\ Len(xOps) < MaxProxyOps
    /\ \E methodName \in MemberNames, args \in ArgLists :
        /\ xOps' = Append(xOps, [op |-> "call", name |-> methodName, args |-> args,
                                 callback |-> TRUE,
                                 invoked |-> <<callMessage(methodName, args)>>,
                                 completed |-> <<>>, reply |-> <<>>])
        /\ xInvoked' = Append(xInvoked, [message |-> callMessage(methodName, args),
                                         callback |-> "user", op |-> Len(xOps) + 1])
    /\ UNCHANGED <<xAnswered, xCompleted>>
    /\ UNCHANGED exceptProxy

\* getProperty(propertyName, callback)
GetProperty ==
    /\ Len(xOps) < MaxProxyOps
    /\ \E propertyName \in MemberNames :
       \E message \in {[destination |-> serviceName, path |-> parentName,
                        interface |-> "org.freedesktop.DBus.Properties",
                        member |-> "Get", signature |-> "ss",
                        body |-> <<interfaceName, propertyName>>]} :
        /\ xOps' = Append(xOps, [op |-> "getProperty", name |-> propertyName,
                                 args |-> <<>>, callback |-> TRUE,
                                 invoked |-> <<message>>, completed |-> <<>>, reply |-> <<>>])
        /\ xInvoked' = Append(xInvoked, [message |-> message, callback |-> "get",
                                         op |-> Len(xOps) + 1])
    /\ UNCHANGED <<xAnswered, xCompleted>>
    /\ UNCHANGED exceptProxy

\* setProperty(propertyName, value, callback?)
SetProperty ==
    /\ Len(xOps) < MaxProxyOps
    /\ \E propertyName \in MemberNames, value \in {N(75)}, callback \in BOOLEAN :
       \E r \in {setProperty(propertyName, value, callback)} :
        /\ xOps' = Append(xOps, [op |-> "setProperty", name |-> propertyName,
                                 args |-> <<value>>, callback |-> callback,
                                 invoked |-> r.invoked, completed |-> r.completed,
                                 reply |-> <<>>])
        /\ xInvoked' = xInvoked \o
                         [k \in 1..Len(r.invoked) |->
                            [message |-> r.invoked[k],
                             callback |-> IF callback THEN "user" ELSE "none",
                             op |-> Len(xOps) + 1]]
        /\ xCompleted' = xCompleted \o r.completed
    /\ UNCHANGED xAnswered
    /\ UNCHANGED exceptProxy

\* the bus runs the callback of the oldest invoke it has not answered
BusReply ==
    /\ xAnswered < Len(xInvoked)
    /\ \E inv \in {xInvoked[xAnswered + 1]} : \E reply \in Replies(inv.callback) :
       \E ran \in {IF inv.callback = "none" THEN <<>>
                   ELSE IF inv.callback = "get" THEN <<getPropertyCallback(reply)>>
                   ELSE <<reply>>} :
        /\ xAnswered' = xAnswered + 1
        /\ xCompleted' = xCompleted \o ran
        /\ xOps' = [xOps EXCEPT ![inv.op].completed = @ \o ran,
                                ![inv.op].reply = reply]
    /\ UNCHANGED xInvoked
    /\ UNCHANGED exceptProxy

-----------------------------------------------------------------------------
(* parseSignature and the g marshaller on signature strings: every string  *)
(* of up to MaxSigLen characters over SigAlphabet, and the long and deeply *)
(* nested signatures of the marshaller's limits.                           *)

MaxSigLen == 4
\* containers, closers, a basic type, a variant and an unknown code
SigAlphabet == {"a", "(", ")", "{", "}", "s", "v", "z"}
ShortSignatures == UNION { [1..n -> SigAlphabet] : n \in 0..MaxSigLen }

\* n arrays inside each other around one byte
Arrays(n) == Repeat("a", n) \o <<"y">>
\* signatures at the marshaller's limits of length and nesting
LongSignatures ==
    { Repeat("i", 255), Repeat("i", 256), Repeat("i", 300), Arrays(32), Arrays(33) }

InitSig ==
    /\ gSig \in ShortSignatures \cup LongSignatures
    /\ gResult = [err |-> "", tree |-> <<>>]
    /\ gPc = "start"

\* parseSignature(gSig)
ParseSignature ==
    /\ gPc = "start"
    /\ gResult' = parseSignature(Str(gSig))
    /\ gPc' = "parsed"
    /\ UNCHANGED gSig
    /\ UNCHANGED exceptSig

\* marshall("g", [gSig]): the simple marshaller of type g on a new Put
MarshallSignature ==
    /\ gPc = "start"
    /\ gResult' = [err |-> marshallSimple(Put, "g", Str(gSig)).err, tree |-> <<>>]
    /\ gPc' = "marshalled"
    /\ UNCHANGED gSig
    /\ UNCHANGED exceptSig

-----------------------------------------------------------------------------
(* The authenticator (lib/handshake): the line-based handshake that comes  *)
(* before the first message.  The log holds the lines of both directions   *)
(* in the order they were sent and received.                               *)

defaultAuthMethods == <<"EXTERNAL", "DBUS_COOKIE_SHA1", "ANONYMOUS">>
\* the lists of authMethods a connection can be configured with: the authMethods
\* in any order, none twice
MethodLists ==
    { ms \in UNION { [1..n -> {defaultAuthMethods[i] : i \in 1..3}] : n \in 1..3 } :
        \A i, j \in 1..Len(ms) : i # j => ms[i] # ms[j] }

LineOut(line) == [dir |-> "sent", line |-> line]
LineIn(line) == [dir |-> "received", line |-> line]
\* AUTH <method> <initial response>
Auth(method) == LineOut(<<"AUTH", method>>)

\* a client that answers REJECTED by giving up
giveUp(authMethods, index) == [index |-> index, send |-> <<>>, state |-> "AuthFailed"]
\* on REJECTED: try the next method, or fail when there is none
tryNext(authMethods, index) ==
    IF index < Len(authMethods)
    THEN [index |-> index + 1, send |-> <<Auth(authMethods[index + 1])>>,
          state |-> "waiting"]
    ELSE [index |-> index, send |-> <<>>, state |-> "AuthFailed"]

\* what the client sends when the transport has connected: one NUL byte
\* and the first method
opening(authMethods, fd) == <<LineOut(<<"NUL">>), Auth(authMethods[1])>>

\* on OK: NEGOTIATE_UNIX_FD when fd passing is wanted, then BEGIN
begin(fd) ==
    (IF fd THEN <<LineOut(<<"NEGOTIATE_UNIX_FD">>)>> ELSE <<>>) \o <<LineOut(<<"BEGIN">>)>>

InitAuth ==
    /\ aMethods \in MethodLists
    /\ aFd \in BOOLEAN
    /\ aIndex = 1
    /\ aLog = <<>>
    /\ aState = "connecting"

\* the transport has connected
Connected ==
    /\ aState = "connecting"
    /\ aLog' = aLog \o opening(aMethods, aFd)
    /\ aState' = "waiting"
    /\ UNCHANGED <<aMethods, aFd, aIndex>>
    /\ UNCHANGED exceptAuth

\* the server answers DATA to DBUS_COOKIE_SHA1: the client replies DATA
ServerData ==
    /\ aState = "waiting"
    /\ aMethods[aIndex] = "DBUS_COOKIE_SHA1"
    /\ aLog[Len(aLog)].dir = "sent" /\ aLog[Len(aLog)].line[1] = "AUTH"
    /\ aLog' = aLog \o <<LineIn(<<"DATA">>), LineOut(<<"DATA">>)>>
    /\ UNCHANGED <<aMethods, aFd, aIndex, aState>>
    /\ UNCHANGED exceptAuth

\* the server answers REJECTED
ServerRejected ==
    /\ aState = "waiting"
    /\ \E r \in {tryNext(aMethods, aIndex)} :
        /\ aLog' = aLog \o <<LineIn(<<"REJECTED">>)>> \o r.send
        /\ aIndex' = r.index
        /\ aState' = r.state
    /\ UNCHANGED <<aMethods, aFd>>
    /\ UNCHANGED exceptAuth

\* the server answers OK <guid>
ServerOK ==
    /\ aState = "waiting"
    /\ aLog' = aLog \o <<LineIn(<<"OK">>)>> \o begin(aFd)
    /\ aState' = "begun"
    /\ UNCHANGED <<aMethods, aFd, aIndex>>
    /\ UNCHANGED exceptAuth

-----------------------------------------------------------------------------
(* processXML and introspectBus (lib/introspect).  A document is what the  *)
(* XML parser hands to its callback: a parse error, or a result whose root *)
(* node, when there is one, holds the interface and node elements in       *)
(* document order.  A list that the parser leaves out is the empty list.   *)

ParseError == [parseError |-> TRUE, root |-> FALSE, interface |-> <<>>, node |-> <<>>]
NoRoot == [parseError |-> FALSE, root |-> FALSE, interface |-> <<>>, node |-> <<>>]
Root(xmlInterfaces, xmlNodes) ==
    [parseError |-> FALSE, root |-> TRUE, interface |-> xmlInterfaces,
     node |-> xmlNodes]

\* <arg direction=... type=...>, a direction of "" being none
XmlArg(direction, type) == [direction |-> direction, type |-> type]
XmlMethod(name, arg) == [name |-> name, arg |-> arg]
XmlProperty(name, type, access) == [name |-> name, type |-> type, access |-> access]
XmlInterface(name, xmlMethods, xmlProperties, xmlSignals) ==
    [name |-> name, method |-> xmlMethods, property |-> xmlProperties,
     signal |-> xmlSignals]
\* <node name=...>, a name of <<>> being none
XmlNode(name) == [name |-> name]

\* Map.set(key, value): a map keeps its keys in insertion order
MapSet(map, key, value) ==
    IF \E i \in 1..Len(map) : map[i].key = key
    THEN [i \in 1..Len(map) |-> IF map[i].key = key THEN [key |-> key, value |-> value]
                                ELSE map[i]]
    ELSE Append(map, [key |-> key, value |-> value])
RECURSIVE MapOf(_, _)
\* the map after set(entry.name, entry.value) for each entry of a list
MapOf(entries, map) ==
    IF entries = <<>> THEN map
    ELSE MapOf(Tail(entries), MapSet(map, entries[1].name, entries[1].value))

RECURSIVE Concat(_)
Concat(strings) == IF strings = <<>> THEN "" ELSE strings[1] \o Concat(Tail(strings))
\* the types of the args of a list that satisfy a test, concatenated
TypesOf(arg, Test(_)) ==
    Concat([i \in 1..Len(SelectSeq(arg, Test)) |-> SelectSeq(arg, Test)[i].type])

parsePropertyAccess(access) ==
    IF access \in {"read", "write", "readwrite"} THEN access ELSE "read"

\* a method whose args all count as inputs
methodInfoAllIn(xmlMethod) ==
    [name |-> xmlMethod.name,
     inSignature |-> TypesOf(xmlMethod.arg, LAMBDA a : TRUE),
     outSignature |-> ""]
\* the loops over an interface's methods, properties and signals
methodInfo(xmlMethod) ==
    [name |-> xmlMethod.name,
     inSignature |-> TypesOf(xmlMethod.arg, LAMBDA a : a.direction \in {"in", ""}),
     outSignature |-> TypesOf(xmlMethod.arg, LAMBDA a : a.direction = "out")]
propertyInfo(xmlProperty) ==
    [name |-> xmlProperty.name, type |-> xmlProperty.type,
     access |-> parsePropertyAccess(xmlProperty.access)]
signalInfo(xmlSignal) ==
    [name |-> xmlSignal.name, signature |-> TypesOf(xmlSignal.arg, LAMBDA a : TRUE)]
\* new DBusInterface(obj, interfaceName, methods, properties, signals)
dbusInterface(obj, xmlInterface) ==
    [parent |-> obj, name |-> xmlInterface.name,
     methods |-> MapOf([i \in 1..Len(xmlInterface.method) |->
                            [name |-> xmlInterface.method[i].name,
                             value |-> methodInfo(xmlInterface.method[i])]], <<>>),
     properties |-> MapOf([i \in 1..Len(xmlInterface.property) |->
                            [name |-> xmlInterface.property[i].name,
                             value |-> propertyInfo(xmlInterface.property[i])]], <<>>),
     signals |-> MapOf([i \in 1..Len(xmlInterface.signal) |->
                            [name |-> xmlInterface.signal[i].name,
                             value |-> signalInfo(xmlInterface.signal[i])]], <<>>)]

\* the names of the child nodes from index 1 on (0-based) that have a name
childNodes(xmlNodes) ==
    [i \in 1..Len(SelectSeq(Tail(xmlNodes), LAMBDA n : n.name # <<>>)) |->
        SelectSeq(Tail(xmlNodes), LAMBDA n : n.name # <<>>)[i].name]

\* a child path that always puts a slash between parent and child
subObjSlash(obj, name) == obj \o <<"/">> \o name
\* the object processXML goes on to when the root has no interface
subObj(obj, name) ==
    IF obj # <<>> /\ obj[Len(obj)] = "/" THEN obj \o name ELSE obj \o <<"/">> \o name

\* the result of a root with interfaces: { interfaces, nodes }
introspection(xml, obj) ==
    [interfaces |-> MapOf([i \in 1..Len(xml.interface) |->
                              [name |-> xml.interface[i].name,
                               value |-> dbusInterface(obj, xml.interface[i])]], <<>>),
     nodes |-> IF xml.node = <<>> THEN <<>> ELSE childNodes(xml.node)]

processXMLUnchecked(xml, obj) ==
    [callbacks |-> <<<<Null, introspection(xml, obj)>>>>, introspect |-> <<>>]

\* the callback of the parser in processXML(xml, obj, callback): the runs of
\* callback it makes and the objects it hands to introspectBus
processXML(xml, obj) ==
    IF xml.parseError
    THEN [callbacks |-> <<<<DBusError("org.freedesktop.DBus.Error.InvalidXml")>>>>,
          introspect |-> <<>>]
    ELSE IF ~xml.root
    THEN [callbacks |-> <<<<DBusError("org.freedesktop.DBus.Error.InvalidXml")>>>>,
          introspect |-> <<>>]
    ELSE IF xml.interface = <<>>
    THEN IF xml.node # <<>> /\ xml.node[1].name # <<>>
         THEN [callbacks |-> <<>>, introspect |-> <<subObj(obj, xml.node[1].name)>>]
         ELSE [callbacks |-> <<<<DBusError("org.freedesktop.DBus.Error.NoSuchInterface")>>>>,
               introspect |-> <<>>]
    ELSE [callbacks |-> <<<<Null, introspection(xml, obj)>>>>, introspect |-> <<>>]

\* the documents: the interface lists and child node lists of a root
Args == <<XmlArg("in", "s"), XmlArg("out", "u"), XmlArg("", "i"), XmlArg("out", "as")>>
Interface1 ==
    XmlInterface("com.x.A",
                 <<XmlMethod("M", <<XmlArg("in", "y")>>), XmlMethod("N", <<>>),
                   XmlMethod("M", Args),
                   XmlMethod("O", <<XmlArg("out", "s"), XmlArg("", "i"), XmlArg("in", "as")>>)>>,
                 <<XmlProperty("P", "u", "readwrite"), XmlProperty("Q", "s", "other")>>,
                 <<XmlMethod("S", <<XmlArg("", "i"), XmlArg("out", "s")>>)>>)
Interface2 == XmlInterface("com.x.B", <<>>, <<>>, <<>>)
InterfaceLists == {<<>>, <<Interface1>>, <<Interface1, Interface2>>}
NodeLists ==
    { <<>>, <<XmlNode(<<"a">>)>>, <<XmlNode(<<>>)>>,
      <<XmlNode(<<"a">>), XmlNode(<<"b">>)>>, <<XmlNode(<<>>), XmlNode(<<"b">>)>>,
      <<XmlNode(<<"a">>), XmlNode(<<>>), XmlNode(<<"c">>)>> }
Documents ==
    {ParseError, NoRoot} \cup {Root(i, n) : i \in InterfaceLists, n \in NodeLists}
\* the object paths introspected
ObjectNames == {<<"/">>, <<"/", "p">>}
\* how many Introspect calls one run makes
MaxIntrospects == 2

\* the Introspect call of introspectBus(obj, callback)
introspectMessage(obj) ==
    [destination |-> serviceName, path |-> obj,
     interface |-> "org.freedesktop.DBus.Introspectable", member |-> "Introspect"]

InitXml ==
    /\ qObj \in ObjectNames
    /\ qXml \in Documents
    /\ qInvoked = <<>>
    /\ qCallbacks = <<>>
    /\ qPc = "start"

\* processXML(qXml, qObj, callback), through to the parser's callback
ProcessXML ==
    /\ qPc = "start"
    /\ Len(qInvoked) < MaxIntrospects \/ processXML(qXml, qObj).introspect = <<>>
    /\ \E r \in {processXML(qXml, qObj)} :
        /\ qCallbacks' = qCallbacks \o r.callbacks
        /\ qInvoked' = qInvoked \o [i \in 1..Len(r.introspect) |->
                                       introspectMessage(r.introspect[i])]
        /\ qObj' = IF r.introspect = <<>> THEN qObj ELSE r.introspect[1]
        /\ qPc' = IF r.introspect = <<>> THEN "done" ELSE "introspecting"
    /\ UNCHANGED qXml
    /\ UNCHANGED exceptXml

\* the bus answers the Introspect call: with an error, or with XML that
\* introspectBus hands to processXML
IntrospectReply ==
    /\ qPc = "introspecting"
    /\ \/ /\ qCallbacks' = Append(qCallbacks, <<DBusError("org.freedesktop.DBus.Error.Failed")>>)
          /\ qPc' = "done"
          /\ UNCHANGED qXml
       \/ /\ qXml' \in Documents
          /\ qPc' = "start"
          /\ UNCHANGED qCallbacks
    /\ UNCHANGED <<qObj, qInvoked>>
    /\ UNCHANGED exceptXml

-----------------------------------------------------------------------------
(* readOneLine (lib/readline.ts).  The stream holds the bytes that have    *)
(* arrived and were not read yet; a readable event runs onReadable while   *)
(* it is a listener.                                                       *)

NEWLINE_BYTE == 10
\* the bytes of the lines: LF, CR and a letter
LineBytes == {NEWLINE_BYTE, 13, 79}
\* the longest input
MaxLine == 4
RECURSIVE SeqsUpTo(_, _)
\* the sequences over S of at most n elements
SeqsUpTo(S, n) ==
    IF n = 0 THEN {<<>>}
    ELSE SeqsUpTo(S, n - 1)
            \cup {Append(q, x) : q \in {r \in SeqsUpTo(S, n - 1) : Len(r) = n - 1}, x \in S}

\* a listener that is never removed
stillListening(found) == TRUE
\* whether onReadable is still a listener when it returns:
\* stream.removeListener("readable", onReadable) after the callback
listening(found) == ~found

RECURSIVE onReadable(_, _, _)
\* onReadable with the stream holding buffered, of which taken bytes are
\* read already: the loop of stream.read(1) until null or the newline
onReadable(buffered, taken, collectedBytes) ==
    IF taken = Len(buffered)
    THEN [taken |-> taken, collectedBytes |-> collectedBytes, lines |-> <<>>,
          listening |-> listening(FALSE)]
    ELSE IF buffered[taken + 1] = NEWLINE_BYTE
    THEN [taken |-> taken + 1, collectedBytes |-> collectedBytes,
          lines |-> <<collectedBytes>>, listening |-> listening(TRUE)]
    ELSE onReadable(buffered, taken + 1, Append(collectedBytes, buffered[taken + 1]))

\* readOneLine(stream, callback) has been called on a stream without data
InitLine ==
    /\ lBytes \in SeqsUpTo(LineBytes, MaxLine)
    /\ lArrived = 0
    /\ lRead = 0
    /\ lCollected = <<>>
    /\ lLines = <<>>
    /\ lListening = TRUE

\* n more bytes arrive and the stream emits readable
Readable ==
    /\ \E n \in 1..(Len(lBytes) - lArrived) :
        /\ lArrived' = lArrived + n
        /\ IF lListening
           THEN \E r \in {onReadable(SubSeq(lBytes, lRead + 1, lArrived + n), 0, lCollected)} :
                    /\ lRead' = lRead + r.taken
                    /\ lCollected' = r.collectedBytes
                    /\ lLines' = lLines \o r.lines
                    /\ lListening' = r.listening
           ELSE UNCHANGED <<lRead, lCollected, lLines, lListening>>
    /\ UNCHANGED lBytes
    /\ UNCHANGED exceptLine

-----------------------------------------------------------------------------
(* The session engine (lib/bus): serials, the pending-call table, the      *)
(* Hello handshake and connection close.  The model starts when the        *)
(* transport has authenticated.                                            *)

\* how many calls a session makes, Hello included
MaxCalls == 4
\* how many replies the broker sends
MaxInbound == 3

\* a counter that stays where it is
sameSerial(serial) == serial
\* the serial counter after a serial has been assigned
nextSerial(serial) == serial + 1

\* an invoke made in this state is written at once
neverQueued(state) == FALSE
\* an invoke made in this state waits for Hello to complete
queued(state) == state = "hello"

\* the table with the entry of a completed call still in it
keepPending(pending, serial) == pending
\* the table without the entry of a completed call
removePending(pending, serial) == pending \ {serial}

\* what a reply completes the callback with
completion(msg) ==
    IF msg.type = methodReturn
    THEN [serial |-> msg.replySerial, kind |-> "result", value |-> msg.body]
    ELSE [serial |-> msg.replySerial, kind |-> "error", value |-> msg.errorName]

\* a close that completes nothing
drainNothing(pending) == <<>>
\* the completions of a close: ConnectionClosed for every pending call
drain(pending) ==
    [i \in 1..Cardinality(pending) |->
        [serial |-> The({s \in pending : Cardinality({t \in pending : t < s}) = i - 1}),
         kind |-> "ConnectionClosed", value |-> 0]]

InitBus ==
    /\ bState = "authenticated"
    /\ bSerial = 1
    /\ bPending = {}
    /\ bFlags = <<>>
    /\ bWire = <<>>
    /\ bQueue = <<>>
    /\ bInbox = <<>>
    /\ bCompletions = <<>>
    /\ bQueued = {}
    /\ bAtClose = [pending |-> {}, wire |-> <<>>]

\* the engine calls Hello as soon as the transport has authenticated
Hello ==
    /\ bState = "authenticated"
    /\ bState' = "hello"
    /\ bSerial' = nextSerial(bSerial)
    /\ bPending' = bPending \cup {bSerial}
    /\ bFlags' = Append(bFlags, 0)
    /\ bWire' = Append(bWire, bSerial)
    /\ UNCHANGED <<bQueue, bInbox, bCompletions, bQueued, bAtClose>>
    /\ UNCHANGED exceptBus

\* invoke(message, cb)
Invoke ==
    /\ bState \in {"hello", "ready", "closed"}
    /\ bSerial <= MaxCalls
    /\ \E flags \in {0, noReplyExpected} :
        /\ bSerial' = nextSerial(bSerial)
        /\ bFlags' = Append(bFlags, flags)
        /\ IF bState = "closed"
           THEN /\ bCompletions' = IF flags = noReplyExpected THEN bCompletions
                                   ELSE bCompletions \o drain({bSerial})
                /\ UNCHANGED <<bPending, bWire, bQueue, bQueued>>
           ELSE /\ bPending' = IF flags = noReplyExpected THEN bPending
                               ELSE bPending \cup {bSerial}
                /\ IF queued(bState)
                   THEN /\ bQueue' = Append(bQueue, bSerial)
                        /\ bQueued' = bQueued \cup {bSerial}
                        /\ UNCHANGED bWire
                   ELSE /\ bWire' = Append(bWire, bSerial)
                        /\ UNCHANGED <<bQueue, bQueued>>
                /\ UNCHANGED bCompletions
    /\ UNCHANGED <<bState, bInbox, bAtClose>>
    /\ UNCHANGED exceptBus

\* a reply serial that no call of the session carries
straySerial == MaxCalls + 2

\* a table in which every reply serial finds a call
matchesAny(pending, serial) == TRUE
\* the pending-call table has an entry for the reply serial
matches(pending, serial) == serial \in pending

\* a method return or an error arrives: for a call that was written, or
\* with a reply serial that no call carries
Receive ==
    /\ bState \in {"hello", "ready"}
    /\ Len(bInbox) < MaxInbound
    /\ \E type \in {methodReturn, error},
          serial \in {bWire[i] : i \in 1..Len(bWire)} \cup {straySerial} :
       \E msg \in {[type |-> type, replySerial |-> serial,
                    body |-> <<"body", Len(bInbox) + 1>>,
                    errorName |-> <<"error", Len(bInbox) + 1>>]} :
        /\ bInbox' = Append(bInbox, msg)
        /\ IF matches(bPending, msg.replySerial)
           THEN /\ bCompletions' = Append(bCompletions, completion(msg))
                /\ bPending' = removePending(bPending, msg.replySerial)
                /\ IF bState = "hello" /\ msg.replySerial = 1
                   THEN /\ bState' = "ready"
                        /\ bWire' = bWire \o bQueue
                        /\ bQueue' = <<>>
                   ELSE UNCHANGED <<bState, bWire, bQueue>>
           ELSE UNCHANGED <<bCompletions, bPending, bState, bWire, bQueue>>
    /\ UNCHANGED <<bSerial, bFlags, bQueued, bAtClose>>
    /\ UNCHANGED exceptBus

\* the connection closes
Close ==
    /\ bState # "closed"
    /\ bState' = "closed"
    /\ bCompletions' = bCompletions \o drain(bPending)
    /\ bPending' = {}
    /\ bQueue' = <<>>
    /\ bAtClose' = [pending |-> bPending, wire |-> bWire]
    /\ UNCHANGED <<bSerial, bFlags, bWire, bInbox, bQueued>>
    /\ UNCHANGED exceptBus

-----------------------------------------------------------------------------
(* The match-rule registry of the session engine: reference counts per     *)
(* rule, one broker call per first add and per last remove.                *)

\* the rules a session subscribes to
Rules == {"r1", "r2"}
\* how many addMatch/removeMatch calls a rule sees
MaxMatchOps == 4

\* every add is taken for the first
alwaysFirst(refs) == TRUE
\* the 0 -> 1 transition of a rule's reference count
firstAdd(refs) == refs = 0
\* the 1 -> 0 transition
lastRemove(refs) == refs = 1
\* how many times the broker was called with this member for rule r
Sent(r, member) == Cardinality({i \in 1..Len(rSent[r]) : rSent[r][i] = member})

InitMatch ==
    /\ rRefs = [r \in Rules |-> 0]
    /\ rSent = [r \in Rules |-> <<>>]
    /\ rReplied = [r \in Rules |-> 0]
    /\ rWaiting = [r \in Rules |-> <<>>]
    /\ rResolved = [r \in Rules |-> 0]
    /\ rOps = [r \in Rules |-> <<>>]

\* addMatch(rule, cb)
AddMatch ==
    /\ \E r \in Rules :
        /\ Len(rOps[r]) < MaxMatchOps
        /\ rOps' = [rOps EXCEPT ![r] = Append(@, "addMatch")]
        /\ rRefs' = [rRefs EXCEPT ![r] = @ + 1]
        /\ IF firstAdd(rRefs[r])
           THEN /\ rSent' = [rSent EXCEPT ![r] = Append(@, "AddMatch")]
                /\ rWaiting' = [rWaiting EXCEPT ![r] = Append(@, Len(rSent[r]) + 1)]
                /\ UNCHANGED rResolved
           ELSE /\ UNCHANGED rSent
                /\ IF rReplied[r] < Len(rSent[r])
                   THEN /\ rWaiting' = [rWaiting EXCEPT ![r] = Append(@, Len(rSent[r]))]
                        /\ UNCHANGED rResolved
                   ELSE /\ rResolved' = [rResolved EXCEPT ![r] = @ + 1]
                        /\ UNCHANGED rWaiting
    /\ UNCHANGED rReplied
    /\ UNCHANGED exceptMatch

\* removeMatch(rule, cb), for a rule that is held
RemoveMatch ==
    /\ \E r \in Rules :
        /\ Len(rOps[r]) < MaxMatchOps
        /\ rRefs[r] > 0
        /\ rOps' = [rOps EXCEPT ![r] = Append(@, "removeMatch")]
        /\ rRefs' = [rRefs EXCEPT ![r] = @ - 1]
        /\ IF lastRemove(rRefs[r])
           THEN /\ rSent' = [rSent EXCEPT ![r] = Append(@, "RemoveMatch")]
                /\ rWaiting' = [rWaiting EXCEPT ![r] = Append(@, Len(rSent[r]) + 1)]
                /\ UNCHANGED rResolved
           ELSE /\ UNCHANGED rSent
                /\ IF rReplied[r] < Len(rSent[r])
                   THEN /\ rWaiting' = [rWaiting EXCEPT ![r] = Append(@, Len(rSent[r]))]
                        /\ UNCHANGED rResolved
                   ELSE /\ rResolved' = [rResolved EXCEPT ![r] = @ + 1]
                        /\ UNCHANGED rWaiting
    /\ UNCHANGED rReplied
    /\ UNCHANGED exceptMatch

\* the broker answers the oldest call in flight for a rule
BrokerReply ==
    /\ \E r \in Rules :
        /\ rReplied[r] < Len(rSent[r])
        /\ rReplied' = [rReplied EXCEPT ![r] = @ + 1]
        /\ rWaiting' = [rWaiting EXCEPT ![r] =
                           SelectSeq(@, LAMBDA k : k > rReplied[r] + 1)]
        /\ rResolved' = [rResolved EXCEPT ![r] =
                           @ + Len(SelectSeq(rWaiting[r], LAMBDA k : k <= rReplied[r] + 1))]
    /\ UNCHANGED <<rRefs, rSent, rOps>>
    /\ UNCHANGED exceptMatch

-----------------------------------------------------------------------------
(* The specifications: one per part of the program, the other parts idle.  *)

IdleCodec ==
    /\ cCase = <<>>
    /\ cBuf = <<>>
    /\ cBack = NoResult
    /\ cPc = "idle"
IdleMessage ==
    /\ mMsg = EmptyMessage
    /\ mBuf = <<>>
    /\ mBack = EmptyMessage
    /\ mPc = "idle"
    /\ mStreamed = NotStreamed
IdleStream ==
    /\ sFrames = <<>>
    /\ sBytes = <<>>
    /\ sArrived = 0
    /\ sBuf = <<>>
    /\ sState = 0
    /\ sHeader = <<>>
    /\ sDelivered = <<>>
    /\ sErr = ""
IdleSimple ==
    /\ pSig = ""
    /\ pData = Undefined
    /\ pBefore = Put
    /\ pPs = Put
    /\ pErr = ""
    /\ pPc = "idle"
IdleSig == gSig = <<>> /\ gResult = [err |-> "", tree |-> <<>>] /\ gPc = "idle"
IdleLine ==
    /\ lBytes = <<>> /\ lArrived = 0 /\ lRead = 0
    /\ lCollected = <<>> /\ lLines = <<>> /\ lListening = FALSE
IdleCodecs == IdleCodec /\ IdleMessage /\ IdleStream /\ IdleSimple /\ IdleSig /\ IdleLine
IdleAuth ==
    aMethods = <<>> /\ aFd = FALSE /\ aIndex = 1 /\ aLog = <<>> /\ aState = "idle"
IdleXml ==
    qObj = <<>> /\ qXml = NoRoot /\ qInvoked = <<>> /\ qCallbacks = <<>> /\ qPc = "idle"
IdleEngine ==
    InitIface /\ InitBus /\ InitMatch /\ InitProxy /\ IdleAuth /\ IdleXml /\ IdleLine

InitC == InitCodec /\ IdleMessage /\ IdleStream /\ IdleSimple /\ IdleEngine /\ IdleSig
    /\ IdlePut
NextCodec == Marshall \/ Unmarshall
SpecCodec == InitC /\ [][NextCodec]_vars

InitS == InitStream /\ IdleCodec /\ IdleMessage /\ IdleSimple /\ IdleEngine /\ IdleSig
    /\ IdlePut
NextStream == Push
SpecStream == InitS /\ [][NextStream]_vars

InitM == InitMessage /\ IdleCodec /\ IdleStream /\ IdleSimple /\ IdleEngine /\ IdleSig
    /\ IdlePut
NextMessage == MessageMarshall \/ MessageUnmarshall \/ StreamUnmarshall
SpecMessage == InitM /\ [][NextMessage]_vars

InitV == InitInvalid /\ IdleCodec /\ IdleStream /\ IdleSimple /\ IdleEngine /\ IdleSig
    /\ IdlePut
SpecInvalid == InitV /\ [][NextMessage]_vars

InitP == InitSimple /\ IdleCodec /\ IdleMessage /\ IdleStream /\ IdleEngine /\ IdleSig
    /\ IdlePut
NextSimple == MarshallSimple
SpecSimple == InitP /\ [][NextSimple]_vars

InitI == InitIface /\ IdleCodecs /\ InitBus /\ InitMatch /\ InitProxy /\ IdleAuth /\ IdleXml
    /\ IdlePut
NextIface == On \/ Off \/ Callback
SpecIface == InitI /\ [][NextIface]_vars

InitG == InitSig /\ IdleCodec /\ IdleMessage /\ IdleStream /\ IdleSimple /\ IdleEngine
    /\ IdlePut
NextSig == ParseSignature \/ MarshallSignature
SpecSig == InitG /\ [][NextSig]_vars

InitA ==
    /\ InitAuth /\ IdleCodecs
    /\ InitIface /\ InitBus /\ InitMatch /\ InitProxy
    /\ IdleXml
    /\ IdlePut
NextAuth == Connected \/ ServerData \/ ServerRejected \/ ServerOK
SpecAuth == InitA /\ [][NextAuth]_vars

InitQ ==
    /\ InitXml /\ IdleCodecs /\ IdleAuth
    /\ InitIface /\ InitBus /\ InitMatch /\ InitProxy
    /\ IdlePut
NextXml == ProcessXML \/ IntrospectReply
SpecXml == InitQ /\ [][NextXml]_vars

InitL ==
    /\ InitLine /\ IdleCodec /\ IdleMessage /\ IdleStream /\ IdleSimple /\ IdleSig
    /\ InitIface /\ InitBus /\ InitMatch /\ InitProxy /\ IdleAuth /\ IdleXml
    /\ IdlePut
NextLine == Readable
SpecLine == InitL /\ [][NextLine]_vars

InitW == InitPut /\ IdleCodecs /\ IdleEngine
NextPut == AlignStream \/ WriteStream
SpecPut == InitW /\ [][NextPut]_vars

InitX == InitProxy /\ IdleCodecs /\ InitIface /\ InitBus /\ InitMatch /\ IdleAuth /\ IdleXml
    /\ IdlePut
NextProxy == Call \/ GetProperty \/ SetProperty \/ BusReply
SpecProxy == InitX /\ [][NextProxy]_vars

InitB == InitBus /\ IdleCodecs /\ InitIface /\ InitMatch /\ InitProxy /\ IdleAuth /\ IdleXml
    /\ IdlePut
NextBus == Hello \/ Invoke \/ Receive \/ Close
SpecBus == InitB /\ [][NextBus]_vars

InitR == InitMatch /\ IdleCodecs /\ InitIface /\ InitBus /\ InitProxy /\ IdleAuth /\ IdleXml
    /\ IdlePut
NextMatch == AddMatch \/ RemoveMatch \/ BrokerReply
SpecMatch == InitR /\ [][NextMatch]_vars

-----------------------------------------------------------------------------
(* Claims about the codec round trip.                                      *)

\* C1: for every signature of basic and container types, unmarshalling
\* what marshall(signature, v) wrote returns the canonical form of v:
\* the value list itself, with 64-bit values given as strings, longs or
\* triples coming back as numbers (or longs under ReturnLongjs).
C1_RoundTrip ==
    cPc # "start" /\ cCase.canon # Undefined =>
        /\ cPc # "threw"
        /\ cPc = "unmarshalled" => cBack.err = "" /\ cBack.val = cCase.canon

\* the range of each fixed-width integer type
TypeMin(type) ==
    CASE type = "n" -> Num(TRUE, MagPow2(15))
      [] type = "i" -> Num(TRUE, MagPow2(31))
      [] OTHER -> N(0)
TypeMax(type) ==
    CASE type = "y" -> Num(FALSE, MagPow2m1(8))
      [] type = "n" -> Num(FALSE, MagPow2m1(15))
      [] type = "q" -> Num(FALSE, MagPow2m1(16))
      [] type = "i" -> Num(FALSE, MagPow2m1(31))
      [] type = "u" -> Num(FALSE, MagPow2m1(32))
\* a value the marshaller of a basic type has to refuse
Unmarshallable(type, v) ==
    \/ /\ type \in {"y", "n", "q", "i", "u"}
       /\ IsNum(v)
       /\ NumLess(v, TypeMin(type)) \/ NumLess(TypeMax(type), v)
    \/ type = "d" /\ v[1] \in {"NaN", "Infinity"}
    \/ type \in {"s", "o", "g"} /\ IsStr(v) /\ InSeq(v[2], "NUL")
    \/ type = "g" /\ IsStr(v) /\ Len(v[2]) > 255
\* the input is a list of basic values, one of which has to be refused
HasUnmarshallable ==
    /\ \A i \in 1..Len(cCase.sig[2]) : cCase.sig[2][i] \in SimpleTypes
    /\ Len(cCase.data[2]) = Len(cCase.sig[2])
    /\ \E i \in 1..Len(cCase.sig[2]) : Unmarshallable(cCase.sig[2][i], cCase.data[2][i])

\* C10: marshalling fails for an integer outside its type's range, for a
\* double that is NaN or infinite, for an s, o or g string holding a NUL,
\* and for a g string longer than 255.
C10_Refused == cPc # "start" /\ HasUnmarshallable => cPc = "threw"
\* the byte 256 and a 256-character signature have been refused
C10_Witness ==
    /\ cPc = "threw"
    /\ HasUnmarshallable
    /\ \/ cCase.sig = Str(<<"y">>) /\ cCase.data = One(N(256))
       \/ cCase.sig = Str(<<"g">>) /\ Len(cCase.data[2][1][2]) = 256

\* C2: for every complete valid message m, with or without a body,
\* message.unmarshall(message.marshall(m)) is m.
C2_MessageRoundTrip ==
    mPc \notin {"start", "marshalled"} => mPc = "unmarshalled" /\ mBack = mMsg

\* the offset at which frame k of the stream ends
FrameEnd(k) == Len(Flatten(SubSeq(sBytes, 1, k)))
\* how many frames have arrived whole
Complete == Cardinality({k \in 1..Len(sFrames) : FrameEnd(k) <= sArrived})

\* C3: however the byte stream is split into chunks, unmarshalMessages
\* calls onMessage exactly once per complete frame, in stream order, and
\* never for a frame with a byte still missing: it has read the 16-byte
\* fixed header and then exactly pad8(fieldsLength) + bodyLength further
\* bytes of each frame.
C3_OnePerFrame ==
    /\ sErr = ""
    /\ sDelivered = SubSeq(sFrames, 1, Complete)
    /\ sArrived - Len(sBuf) = FrameEnd(Complete) + (IF sState = 1 THEN 16 ELSE 0)
\* one frame has been delivered and the next is held back, its fixed
\* header read and part of its fields buffered
C3_Witness ==
    /\ Len(sDelivered) = 1
    /\ Len(sFrames) = 2
    /\ sState = 1
    /\ Len(sBuf) > 0

-----------------------------------------------------------------------------
(* Claims about the proxy interface's signal subscription.                 *)

\* how many times the bus was asked to add or remove the signal's rule
Calls(method) ==
    Cardinality({i \in 1..Len(iCalls) :
                    iCalls[i] = <<method, getMatchRule(parentName, interfaceName, signalName)>>})

\* C7: two listeners registered with on for the same signal cause exactly
\* one AddMatch for the rule type='signal',path=...,interface=...,member=...
\* removing one of them with off sends no RemoveMatch, and removing the
\* second sends exactly one RemoveMatch for that rule.
C7_OneMatch ==
    \A a \in Handlers : \A b \in Handlers \ {a} :
        iThrown = 0 =>
            /\ iOps = <<<<"on", a, signalName>>, <<"on", b, signalName>>>> =>
                   Calls("addMatch") = 1
            /\ \A c \in {a, b} :
                   iOps = <<<<"on", a, signalName>>, <<"on", b, signalName>>,
                            <<"off", c, signalName>>>> =>
                       Calls("addMatch") = 1 /\ Calls("removeMatch") = 0
            /\ \A c \in {a, b} : \A d \in {a, b} \ {c} :
                   iOps = <<<<"on", a, signalName>>, <<"on", b, signalName>>,
                            <<"off", c, signalName>>, <<"off", d, signalName>>>> =>
                       Calls("addMatch") = 1 /\ Calls("removeMatch") = 1

\* C8: after on(signal, handler) and then off(signal, handler), once every
\* addMatch/removeMatch callback has run, the handler is not a listener of
\* bus.signals (so no later emission invokes it), whether the addMatch
\* callback ran inside on or only after off.
C8_Removed ==
    \A h \in Handlers :
        iOps = <<<<"on", h, signalName>>, <<"off", h, signalName>>>>
            /\ iCallbacks = <<>> /\ iThrown = 0 =>
            \A i \in 1..Len(iListeners[signalName]) : iListeners[signalName][i][1] # h

-----------------------------------------------------------------------------
(* Claims about the session engine.                                        *)

\* the completions of call s, and the replies to it in arrival order
CompletionsOf(s) == SelectSeq(bCompletions, LAMBDA c : c.serial = s)
RepliesTo(s) == SelectSeq(bInbox, LAMBDA m : m.replySerial = s)
ConnectionClosed(s) == [serial |-> s, kind |-> "ConnectionClosed", value |-> 0]

\* C4: every invoke made without noReplyExpected is pending until it is
\* completed, and is completed exactly once: with the body of the first
\* method return, or the error name of the first error, whose reply serial
\* is the call's serial, or else with ConnectionClosed by the close; its
\* entry is then gone, so later replies to the same serial complete nothing.
C4_CompletedOnce ==
    \A s \in 1..(bSerial - 1) :
        bFlags[s] # noReplyExpected =>
            /\ Len(CompletionsOf(s)) <= 1
            /\ s \in bPending <=> CompletionsOf(s) = <<>>
            /\ CompletionsOf(s) # <<>> =>
                   IF RepliesTo(s) # <<>>
                   THEN CompletionsOf(s)[1] = completion(RepliesTo(s)[1])
                   ELSE bState = "closed" /\ CompletionsOf(s)[1] = ConnectionClosed(s)
\* a call was answered twice and completed once, by the first answer
C4_Witness ==
    \E s \in 2..(bSerial - 1) :
        /\ bFlags[s] # noReplyExpected
        /\ Len(RepliesTo(s)) >= 2
        /\ CompletionsOf(s) = <<completion(RepliesTo(s)[1])>>

\* C5: when the connection has closed, every call that was pending at the
\* close has completed with ConnectionClosed, the pending-call table is
\* empty, and the transport holds exactly the bytes written before the close.
C5_CloseDrains ==
    bState = "closed" =>
        /\ bPending = {}
        /\ bWire = bAtClose.wire
        /\ \A s \in bAtClose.pending : CompletionsOf(s) = <<ConnectionClosed(s)>>
\* the connection closed while Hello was outstanding with calls queued
\* behind it, and a further invoke was made after the close
C5_Witness ==
    /\ bState = "closed"
    /\ Cardinality(bAtClose.pending \cap bQueued) >= 1
    /\ 1 \in bAtClose.pending
    /\ bSerial - 1 > Len(bAtClose.wire) + Cardinality(bQueued)

\* C9: while the Hello reply is outstanding only Hello is on the wire and
\* the invokes made since wait in the order they were made; once Hello has
\* completed nothing waits and every call made is on the wire; the wire
\* always holds the serials in increasing order.
C9_HelloQueue ==
    /\ bState = "hello" =>
           bWire = <<1>> /\ bQueue = [i \in 1..(bSerial - 2) |-> i + 1]
    /\ bState = "ready" =>
           bQueue = <<>> /\ Len(bWire) = bSerial - 1
    /\ \A i \in 1..Len(bWire) : bWire[i] = i
\* two invokes waited for Hello, were flushed, and one more was written
\* at once afterwards
C9_Witness ==
    /\ bState = "ready"
    /\ Cardinality(bQueued) >= 2
    /\ Len(bWire) > Cardinality(bQueued) + 1

\* n addMatch calls followed by k removeMatch calls
AddsThenRemoves(n, k) == [i \in 1..(n + k) |-> IF i <= n THEN "addMatch" ELSE "removeMatch"]

\* C6: for any rule, N addMatch calls followed by N removeMatch calls make
\* exactly one broker AddMatch and exactly one broker RemoveMatch (and no
\* RemoveMatch before the N-th removeMatch), whenever the broker's replies
\* arrive.
C6_OneBrokerCall ==
    \A r \in Rules : \A n \in 1..Len(rOps[r]) : \A k \in 0..n :
        rOps[r] = AddsThenRemoves(n, k) =>
            /\ Sent(r, "AddMatch") = 1
            /\ Sent(r, "RemoveMatch") = IF k = n THEN 1 ELSE 0
\* two adds and two removes of a rule were all made before the broker
\* answered the first AddMatch
C6_Witness ==
    \E r \in Rules :
        /\ rOps[r] = AddsThenRemoves(2, 2)
        /\ rReplied[r] = 0

-----------------------------------------------------------------------------
(* Claims about the simple marshallers.                                    *)

\* C11: when a simple marshaller's check rejects the value, the put stream
\* is exactly as it was before the call: no padding and no value bytes
\* appended, _offset unchanged.
C11_NoPartialWrite ==
    pPc = "threw" => pPs = pBefore /\ buffer(pPs) = buffer(pBefore)
\* an 8-aligned type was refused at an offset that is not a multiple of 8
C11_Witness ==
    /\ pPc = "threw"
    /\ pSig \in {"x", "t", "d"}
    /\ pBefore._offset % 8 # 0

\* the alignment and the encoded size of a value of a basic type
NaturalAlignment(type) ==
    CASE type \in {"y", "g"} -> 1
      [] type \in {"n", "q"} -> 2
      [] type \in {"b", "i", "u", "s", "o"} -> 4
      [] type \in {"x", "t", "d"} -> 8
EncodedSize(type, data) ==
    CASE type = "y" -> 1
      [] type \in {"n", "q"} -> 2
      [] type \in {"b", "i", "u"} -> 4
      [] type \in {"x", "t", "d"} -> 8
      [] type \in {"s", "o"} -> 4 + Len(Utf8(data[2])) + 1
      [] type = "g" -> 1 + Len(data[2]) + 1
\* the smallest offset >= from that is a multiple of a
NextMultiple(from, a) == Min({k \in from..(from + a) : k % a = 0})

\* C12: for every basic type and running offset, the value starts at the
\* smallest multiple of the type's alignment at or after the running
\* offset, every byte skipped is zero, and the bytes before are untouched.
C12_Aligned ==
    pPc = "returned" =>
        /\ pPs._offset = NextMultiple(pBefore._offset, NaturalAlignment(pSig))
                            + EncodedSize(pSig, pData)
        /\ Len(buffer(pPs)) = pPs._offset
        /\ \A k \in 1..pBefore._offset : buffer(pPs)[k] = 255
        /\ \A k \in (pBefore._offset + 1)..NextMultiple(pBefore._offset,
                                                       NaturalAlignment(pSig)) :
               buffer(pPs)[k] = 0
\* a value of an 8-aligned type was written after seven bytes of padding
C12_Witness ==
    /\ pPc = "returned"
    /\ pSig \in {"x", "t", "d"}
    /\ pBefore._offset % 8 = 1
    /\ pPs._offset = pBefore._offset + 15

\* whether a string writes an integer, in decimal or after 0x in
\* hexadecimal, and the integer it writes
Digits(chars) ==
    The({ IF StartsWith(u, <<"0", "x">>) THEN [radix |-> 16, digits |-> Drop(u, 2)]
          ELSE [radix |-> 10, digits |-> u]
          : u \in {IF chars # <<>> /\ chars[1] = "-" THEN Tail(chars) ELSE chars} })
DenotesInteger(chars) ==
    /\ Digits(chars).digits # <<>>
    /\ \A i \in 1..Len(Digits(chars).digits) :
           IsDigit(Digits(chars).digits[i], Digits(chars).radix)
DenotedValue(chars) ==
    Num(chars[1] = "-",
        ParseDigits(Digits(chars).digits, Digits(chars).radix, 1, ZeroMag))
\* outside the range of a signed (x) or unsigned (t) 64-bit field
OutOfRange64(type, v) ==
    IF type = "x"
    THEN NumLess(v, Num(TRUE, MagPow2(63))) \/ NumLess(Num(FALSE, MagPow2m1(63)), v)
    ELSE NumLess(v, N(0)) \/ NumLess(Num(FALSE, MagPow2m1(64)), v)
\* a 64-bit input the marshaller has to refuse
Refusable64(type, data) ==
    \/ data[1] \in {"Long", "object"} /\ data[4] # (type = "t")
    \/ IsNum(data) /\ OutOfRange64(type, data)
    \/ IsStr(data) /\ DenotesInteger(data[2]) /\ OutOfRange64(type, DenotedValue(data[2]))

\* C13: marshalling into x or t throws for a Long instance or a
\* low/high/unsigned triple whose unsigned flag does not match the field,
\* and for a number or a string whose value is outside the field's 64-bit
\* range; nothing is written in place of the value.
C13_Refused64 ==
    pSig \in {"x", "t"} /\ pPc # "start" /\ Refusable64(pSig, pData) =>
        pPc = "threw" /\ pPs = pBefore
\* 2^64 as a decimal string into t, which wraps to 0 in 64 bits
C13_Witness ==
    /\ pPc = "threw"
    /\ pSig = "t"
    /\ pData = Str(Pow2_64)
    /\ Refusable64(pSig, pData)

-----------------------------------------------------------------------------
\* the calls made so far on the interface proxy
ProxyOps == {xOps[i] : i \in 1..Len(xOps)}
AddressKeys == {"destination", "path", "interface", "member"}

\* C14: call of a declared method hands bus.invoke exactly one message,
\* addressed to the service name, the object path, the interface name and
\* the method; it carries the declared in-signature and the arguments as
\* body when that in-signature is not empty, and neither key when it is.
C14_CallMessage ==
    \A o \in ProxyOps :
        o.op = "call" /\ o.name \in DOMAIN methods =>
            /\ Len(o.invoked) = 1
            /\ \E m \in {o.invoked[1]} :
                /\ AddressKeys \subseteq DOMAIN m
                /\ m.destination = serviceName
                /\ m.path = parentName
                /\ m.interface = interfaceName
                /\ m.member = o.name
                /\ IF methods[o.name].inSignature # ""
                   THEN /\ DOMAIN m = AddressKeys \cup {"signature", "body"}
                        /\ m.signature = methods[o.name].inSignature
                        /\ m.body = o.args
                   ELSE DOMAIN m = AddressKeys
C14_Witness ==
    /\ \E o \in ProxyOps : o.op = "call" /\ o.name = "TestMethod"
                           /\ o.args = <<"arg1", "arg2">>
    /\ \E o \in ProxyOps : o.op = "call" /\ o.name = "NoArgsMethod"
                           /\ DOMAIN o.invoked[1] = AddressKeys

\* C15: setProperty of a name that is not in the property table runs its
\* callback once, with a DBusError named UnknownProperty, and hands no
\* message to bus.invoke.
C15_UnknownProperty ==
    \A o \in ProxyOps :
        o.op = "setProperty" /\ o.name \notin DOMAIN properties =>
            /\ o.invoked = <<>>
            /\ \A k \in 1..Len(xInvoked) : xInvoked[k].message.member # "Set"
                                           \/ xInvoked[k].message.body[2] # o.name
            /\ o.callback =>
                 o.completed = <<<<DBusError("org.freedesktop.DBus.Error.UnknownProperty")>>>>
C15_Witness ==
    \E o \in ProxyOps : /\ o.op = "setProperty" /\ o.name = "Missing" /\ o.callback
                        /\ Len(o.completed) = 1 /\ xInvoked = <<>>

\* C16: call of a name that is not in the method table runs its callback
\* with a DBusError named UnknownMethod and hands no message to bus.invoke.
C16_UnknownMethod ==
    \A o \in ProxyOps :
        o.op = "call" /\ o.name \notin DOMAIN methods =>
            /\ o.invoked = <<>>
            /\ o.completed = <<<<DBusError("org.freedesktop.DBus.Error.UnknownMethod")>>>>

\* the number of top-level types of a variant's signature
TopLevelTypes(signature) ==
    IF signature[1] = "tree" THEN Len(signature[2])
    ELSE Len(parseSignature(signature).tree)

-----------------------------------------------------------------------------
\* the type codes that are neither containers nor brackets
PlainCodes == KNOWN_TYPES \ {"a", "(", ")", "{", "}"}
Closer(c) == IF c = "(" THEN ")" ELSE "}"

RECURSIVE EndOfType(_, _)
RECURSIVE EndOfBody(_, _, _)
\* the index after the one complete type that starts at s[i], 0 if none
\* does: a plain code, an array and its element type, or an opening bracket,
\* complete types and the matching closing bracket
EndOfType(s, i) ==
    IF i > Len(s) THEN 0
    ELSE IF s[i] \in PlainCodes THEN i + 1
    ELSE IF s[i] = "a" THEN EndOfType(s, i + 1)
    ELSE IF s[i] \in {"(", "{"} THEN EndOfBody(s, i + 1, Closer(s[i]))
    ELSE 0
EndOfBody(s, i, closer) ==
    IF i > Len(s) THEN 0
    ELSE IF s[i] = closer THEN i + 1
    ELSE The({ IF e = 0 THEN 0 ELSE EndOfBody(s, e, closer) : e \in {EndOfType(s, i)} })
RECURSIVE CompleteTypes(_, _)
\* s from index i on is a sequence of complete types
CompleteTypes(s, i) ==
    IF i > Len(s) THEN TRUE
    ELSE The({ e # 0 /\ CompleteTypes(s, e) : e \in {EndOfType(s, i)} })

RECURSIVE Rendering(_)
\* a tree written left to right: each node's code, its children, and the
\* closing bracket of a struct or dict entry
Rendering(tree) ==
    IF tree = <<>> THEN <<>>
    ELSE <<tree[1].type>> \o Rendering(tree[1].child)
            \o (IF tree[1].type \in {"(", "{"} THEN <<Closer(tree[1].type)>> ELSE <<>>)
            \o Rendering(Tail(tree))

\* C18: parseSignature(s) returns a tree exactly when s is a sequence of
\* complete types, and the tree's left-to-right rendering is then s; for
\* every other s it fails.
C18_ParsesCompleteTypes ==
    gPc = "parsed" /\ Len(gSig) <= MaxSigLen =>
        /\ gResult.err = "" <=> CompleteTypes(gSig, 1)
        /\ gResult.err = "" => Rendering(gResult.tree) = gSig
\* the basic types: every plain code but the variant
BasicCodes == PlainCodes \ {"v"}
\* the dict entry opened at s[i] is an array's element type and holds a
\* basic key type and one more complete type
DictEntryOK(s, i) ==
    /\ i > 1 /\ s[i - 1] = "a"
    /\ i + 1 <= Len(s) /\ s[i + 1] \in BasicCodes
    /\ \E e \in {EndOfType(s, i + 2)} : e # 0 /\ e <= Len(s) /\ s[e] = "}"

\* C19: parseSignature fails for a signature with a dict entry that does
\* not hold exactly two complete types, whose key is not a basic type, or
\* that is not the element type of an array.
C19_BadDictEntry ==
    gPc = "parsed" /\ Len(gSig) <= MaxSigLen
        /\ (\E i \in 1..Len(gSig) : gSig[i] = "{" /\ ~DictEntryOK(gSig, i))
        => gResult.err # ""

RECURSIVE NodeDepth(_)
\* how many containers (arrays, structs, dict entries) are inside each
\* other at a node of a signature tree
NodeDepth(node) ==
    IF node.type \in {"a", "(", "{"}
    THEN 1 + Max({0} \cup {NodeDepth(node.child[k]) : k \in 1..Len(node.child)})
    ELSE 0
NestingDepth(chars) ==
    The({ Max({0} \cup {NodeDepth(tree[k]) : k \in 1..Len(tree)})
          : tree \in {parseSignature(Str(chars)).tree} })

\* C20: a signature string that the g marshaller accepts is at most 255
\* bytes long and nests containers (arrays, structs and dict entries
\* counted alike) at most 32 deep.
C20_SignatureLimits ==
    gPc = "marshalled" /\ gResult.err = "" =>
        Len(gSig) <= 255 /\ NestingDepth(gSig) <= 32

-----------------------------------------------------------------------------
\* a message that is not valid: a header its type requires is missing, its
\* type is no message type, or it has a body and no signature
Invalid(m) ==
    \/ \E k \in RequiredHeaders(m.type[3][1]) : m[k] = Undefined
    \/ m.type[3][1] \notin MessageTypes
    \/ m.body # Undefined /\ Len(m.body[2]) > 0 /\ m.signature = Undefined

\* C21: the message codec fails for every message that lacks a header its
\* type requires, has an unknown type, or has a body without a signature:
\* it neither emits nor returns such a message.
C21_InvalidRefused ==
    mPc # "start" /\ Invalid(mMsg) => mPc = "threw"

-----------------------------------------------------------------------------
\* the unsigned number four little-endian bytes stand for
LE32(b) == b[1] + 256 * b[2] + 65536 * b[3] + 16777216 * b[4]
\* the bytes of the header field array, read from its length word
FieldsEnd == 16 + LE32(SubSeq(mBuf, 13, 16))
\* where the body starts: the next multiple of 8 after the field array
BodyStart == Min({k \in FieldsEnd..(FieldsEnd + 8) : k % 8 = 0})
\* the bytes of the message's body, marshalled on its own
BodyBytes ==
    IF mMsg.signature = Undefined \/ mMsg.body = Undefined THEN <<>>
    ELSE marshallData(mMsg.signature, mMsg.body, 0).buf

\* C22: a marshalled message is the 12-byte prefix (l, type, flags,
\* version 1, body length, serial), the header field array, zero bytes up
\* to the next multiple of 8, and the body: the body length field is the
\* number of body bytes, the body starts at a multiple of 8, and a message
\* without a body has a length that is a multiple of 8.
C22_Layout ==
    mPc \in {"marshalled", "unmarshalled", "rejected"} =>
        /\ Len(mBuf) >= 16
        /\ mBuf[1] = endianness_le
        /\ mBuf[2] = mMsg.type[3][1]
        /\ mBuf[3] = mMsg.flags[3][1]
        /\ mBuf[4] = 1
        /\ LE32(SubSeq(mBuf, 5, 8)) = Len(BodyBytes)
        /\ LE32(SubSeq(mBuf, 9, 12)) = mMsg.serial[3][1]
        /\ FieldsEnd <= Len(mBuf)
        /\ BodyStart <= Len(mBuf)
        /\ \A k \in (FieldsEnd + 1)..BodyStart : mBuf[k] = 0
        /\ SubSeq(mBuf, BodyStart + 1, Len(mBuf)) = BodyBytes
        /\ BodyBytes = <<>> => Len(mBuf) % 8 = 0
C22_Witness ==
    /\ mPc = "marshalled"
    /\ BodyBytes # <<>>
    /\ FieldsEnd % 8 # 0
    /\ Len(mBuf) % 8 # 0

-----------------------------------------------------------------------------
\* the characters of an object path's segments
SegmentChars ==
    {Letters[i] : i \in 1..Len(Letters)} \cup {ToUpperCase(<<Letters[i]>>)[1] : i \in 1..Len(Letters)}
        \cup {"0", "1", "2", "3", "4", "5", "6", "7", "8", "9", "_"}
\* "/" alone, or one or more segments of segment characters, each after "/"
ValidObjectPath(chars) ==
    \/ chars = <<"/">>
    \/ /\ Len(chars) >= 2
       /\ chars[1] = "/"
       /\ chars[Len(chars)] # "/"
       /\ \A k \in 1..Len(chars) : chars[k] \in SegmentChars \cup {"/"}
       /\ \A k \in 1..(Len(chars) - 1) : ~(chars[k] = "/" /\ chars[k + 1] = "/")

\* C23: the o marshaller accepts a string exactly when it is "/" or is
\* made of one or more segments of [A-Za-z0-9_], each after a "/".
C23_ObjectPath ==
    pSig = "o" /\ pPc # "start" /\ IsStr(pData) =>
        (pPc = "returned" <=> ValidObjectPath(pData[2]))

-----------------------------------------------------------------------------
\* the positions of the log that hold a line
PositionsOf(entry) == {p \in 1..Len(aLog) : aLog[p] = entry}
\* the positions at which a method was started, and the methods started
AuthPositions ==
    {p \in 1..Len(aLog) : aLog[p].dir = "sent" /\ aLog[p].line[1] = "AUTH"}
AuthLines == SelectSeq(aLog, LAMBDA e : e.dir = "sent" /\ e.line[1] = "AUTH")

\* C24: the authenticator tries the configured methods in their order and
\* starts a further method only on the server's REJECTED; it sends BEGIN
\* only after an OK and no line after BEGIN; it fails with AuthFailed
\* exactly when every configured method has been rejected.
C24_Handshake ==
    /\ Len(AuthLines) <= Len(aMethods)
    /\ \A k \in 1..Len(AuthLines) : AuthLines[k].line[2] = aMethods[k]
    /\ \A p \in AuthPositions :
         \/ p = Min(AuthPositions)
         \/ aLog[p - 1] = LineIn(<<"REJECTED">>)
    /\ Len(AuthLines) <= 1 + Cardinality(PositionsOf(LineIn(<<"REJECTED">>)))
    /\ \A p \in PositionsOf(LineOut(<<"BEGIN">>)) :
         /\ \E q \in 1..(p - 1) : aLog[q] = LineIn(<<"OK">>)
         /\ \A q \in (p + 1)..Len(aLog) : aLog[q].dir # "sent"
    /\ aState = "AuthFailed" <=>
         /\ aState # "idle"
         /\ Cardinality(PositionsOf(LineIn(<<"REJECTED">>))) = Len(aMethods)
C24_Witness ==
    /\ aState = "AuthFailed"
    /\ Len(aMethods) = 3
    /\ Len(AuthLines) = 3
    /\ PositionsOf(LineIn(<<"DATA">>)) # {}

-----------------------------------------------------------------------------
\* C25: a method return or error that arrives with a reply serial for
\* which the pending-call table has no entry is dropped: the step runs no
\* callback, writes nothing to the transport and leaves the table as it is.
C25_UnmatchedDropped ==
    [][ (/\ Len(bInbox') = Len(bInbox) + 1
         /\ bInbox'[Len(bInbox')].replySerial \notin bPending)
        => UNCHANGED <<bCompletions, bWire, bPending, bQueue, bState>> ]_vars
\* replies have arrived for a serial no call carries and for a call made
\* with noReplyExpected, and no callback has run for them
C25_Witness ==
    /\ \E k \in 1..Len(bInbox) : bInbox[k].replySerial = straySerial
    /\ \E k \in 1..Len(bInbox) :
         /\ bInbox[k].replySerial < bSerial
         /\ bFlags[bInbox[k].replySerial] = noReplyExpected
    /\ Len(bCompletions) = 1

\* the serials of the calls made so far, in the order they were assigned
Assigned == 1..Len(bFlags)

\* C26: serials are assigned from 1 upwards, one per call; every serial
\* written to the transport or held in the pending-call table is one of
\* them, so it is not 0, and the serial the next message gets is larger
\* than all of them; no serial is written twice.
C26_Serials ==
    /\ bSerial = Len(bFlags) + 1
    /\ bPending \subseteq Assigned
    /\ \A i \in 1..Len(bWire) : bWire[i] \in Assigned /\ bWire[i] # 0
    /\ \A i \in 1..Len(bQueue) : bQueue[i] \in Assigned
    /\ \A i, j \in 1..Len(bWire) : i < j => bWire[i] < bWire[j]
    /\ bSerial \notin bPending
C26_Witness ==
    /\ bSerial = MaxCalls + 1
    /\ Len(bWire) = MaxCalls
    /\ Cardinality(bPending) >= 2
    /\ Len(bCompletions) >= 1

-----------------------------------------------------------------------------
(* C27: the errors of processXML                                           *)

NoInterfaceNoChild(xml) ==
    /\ ~xml.parseError /\ xml.root
    /\ xml.interface = <<>>
    /\ xml.node = <<>> \/ xml.node[1].name = <<>>

Width(type) ==
    CASE type = "y" -> 1
      [] type \in {"n", "q"} -> 2
      [] type \in {"i", "u"} -> 4
Signed(type) == type \in {"n", "i"}
\* an integer number inside the closed range of the type
InRange(type, v) ==
    IsNum(v) /\ ~NumLess(v, TypeMin(type)) /\ ~NumLess(TypeMax(type), v)
\* the bytes the call appended after the padding
ValueBytes ==
    SubSeq(buffer(pPs), NextMultiple(pBefore._offset, NaturalAlignment(pSig)) + 1,
           Len(buffer(pPs)))

\* C28: the y, n, q, i and u marshallers accept a value exactly when it is
\* an integer number inside the type's closed range, both bounds included,
\* and the bytes written for an accepted value are as many as the type is
\* wide and read back, least significant byte first and in two's
\* complement for the signed types, as the value.
C28_IntegerRanges ==
    pSig \in {"y", "n", "q", "i", "u"} /\ pPc # "start" =>
        /\ pPc = "returned" <=> InRange(pSig, pData)
        /\ pPc = "returned" =>
              /\ Len(ValueBytes) = Width(pSig)
              /\ pData = IF Signed(pSig) THEN FromTwos(ValueBytes)
                         ELSE FromBytes(ValueBytes)
\* the lower bound of i has been written as 00 00 00 80
C28_Witness ==
    /\ pPc = "returned"
    /\ pSig = "i"
    /\ pData = TypeMin("i")
    /\ ValueBytes = <<0, 0, 0, 128>>

\* 2^53 - 1, spelled out byte by byte
SafeMax == MagPad(<<255, 255, 255, 255, 255, 255, 31>>)
\* an integer number inside the window of the field: -(2^53-1)..2^53-1 for
\* x, 0..2^53-1 for t
InWindow(type, v) ==
    /\ IsNum(v)
    /\ ~MagLess(SafeMax, v[3])
    /\ type = "t" => ~v[2]

\* C29: a native number given for an x field is accepted exactly when it
\* is an integer in -(2^53-1)..2^53-1, and for a t field exactly when it is
\* an integer in 0..2^53-1; numbers outside the window are refused, those
\* that fit in 64 bits included.
C29_SafeWindow ==
    pSig \in {"x", "t"} /\ TypeofNumber(pData) /\ pPc # "start" =>
        (pPc = "returned" <=> InWindow(pSig, pData))
\* 2^62, which fits a signed 64-bit field, was refused for x
C29_Witness ==
    /\ pPc = "threw"
    /\ pSig = "x"
    /\ pData = Num(FALSE, MagPow2(62))
    /\ pPs = pBefore

\* the bytes of the stream after the call, and where a string's length
\* word starts when the string's bytes are n
Written == buffer(pPs)
LengthAt(n) == Len(Written) - (n + 5)

\* C30: a string or object path is written as its byte length, terminator
\* not counted, in a u32 at the next multiple of 4, then its UTF-8 bytes,
\* then one NUL byte; a signature is written at the running offset itself as
\* its length in one byte, its bytes, then one NUL byte.
C30_StringLayout ==
    /\ pSig \in {"s", "o"} /\ pPc = "returned" =>
          \E n \in {Len(Utf8(pData[2]))} :
              /\ LengthAt(n) % 4 = 0
              /\ LengthAt(n) - pBefore._offset \in 0..3
              /\ LE32(SubSeq(Written, LengthAt(n) + 1, LengthAt(n) + 4)) = n
              /\ SubSeq(Written, LengthAt(n) + 5, LengthAt(n) + 4 + n) = Utf8(pData[2])
              /\ Written[Len(Written)] = 0
    /\ pSig = "g" /\ pPc = "returned" =>
          \E n \in {Len(pData[2])} :
              /\ Len(Written) = pBefore._offset + n + 2
              /\ Written[pBefore._offset + 1] = n
              /\ SubSeq(Written, pBefore._offset + 2, pBefore._offset + 1 + n)
                    = [i \in 1..n |-> CodePoint(pData[2][i])]
              /\ Written[Len(Written)] = 0
\* a string with characters of two UTF-8 bytes was written at offset 5,
\* after three bytes of padding
C30_Witness ==
    /\ pPc = "returned"
    /\ pSig = "s"
    /\ pData = Str(<<"E9", "a", "E9">>)
    /\ pBefore._offset = 5
    /\ SubSeq(Written, 6, Len(Written)) = <<0, 0, 0, 5, 0, 0, 0, 195, 169, 97, 195, 169, 0>>

-----------------------------------------------------------------------------
(* C31: what an array's length word counts                                 *)

\* the header fields the message carries, in the order they are written
PresentFields == SelectSeq(headerTypeName, LAMBDA f : Truthy(mMsg[f]))
\* the bytes of one header field entry: the field id, the one-letter
\* signature of the variant (length byte, letter, NUL), then the value
FieldSize(f) == 4 + EncodedSize(fieldSignature(f), mMsg[f])
RECURSIVE ElementBytes(_, _)
\* the bytes from the first entry to the end of entry i: every entry starts
\* at a multiple of 8, and nothing follows the last one
ElementBytes(fs, i) ==
    IF i = 0 THEN 0
    ELSE NextMultiple(ElementBytes(fs, i - 1), 8) + FieldSize(fs[i])

-----------------------------------------------------------------------------
\* C32: a decimal or 0x-prefixed hexadecimal string given for an x or t
\* field, with or without leading zeroes (also after a minus sign or before
\* a hexadecimal letter digit), is accepted whenever the integer it writes
\* is in the field's range, and the eight bytes written are that integer.
C32_LeadingZeroes ==
    /\ pSig \in {"x", "t"} /\ pPc # "start"
    /\ IsStr(pData) /\ DenotesInteger(pData[2])
    /\ ~OutOfRange64(pSig, DenotedValue(pData[2]))
    => /\ pPc = "returned"
       /\ DenotedValue(pData[2]) = IF pSig = "x" THEN FromTwos(ValueBytes)
                                   ELSE FromBytes(ValueBytes)

-----------------------------------------------------------------------------
\* C33: message.marshall fails with "Missing or invalid serial" and yields
\* no bytes when the message's serial is absent or 0, and no message it
\* emits has 0 in its serial field (bytes 8..11).
C33_SerialRequired ==
    mPc # "start" =>
        /\ mMsg.serial \in {Undefined, N(0)} =>
              /\ mPc = "threw"
              /\ mBuf = <<>>
              /\ marshallMessage(mMsg).err = "Missing or invalid serial"
        /\ mPc # "threw" => LE32(SubSeq(mBuf, 9, 12)) # 0
\* a signal with a body and serial 0 has been refused
C33_Witness ==
    /\ mPc = "threw"
    /\ mMsg.serial = N(0)
    /\ mMsg.type = N(signal)
    /\ mMsg.body # Undefined
    /\ mBuf = <<>>

-----------------------------------------------------------------------------
(* C34: the recursion of processXML into the first child                   *)

\* the root has no interfaces but a named first child node
FirstChildOnly(xml) ==
    /\ ~xml.parseError /\ xml.root
    /\ xml.interface = <<>>
    /\ xml.node # <<>> /\ xml.node[1].name # <<>>
\* parent + '/' + child, the slash left out when the parent ends in one
ChildPath(parent, child) ==
    IF parent[Len(parent)] = "/" THEN parent \o child ELSE parent \o <<"/">> \o child
\* processXML runs in this step
ProcessXMLStep == qPc = "start" /\ qPc' # "start"

\* C34: when processXML is given a root without interfaces but with a named
\* first child, it makes one Introspect call, to the same service and to
\* the path parent + '/' + child name with no doubled slash, and does not
\* run the callback itself; no other document leads to a call; and when the
\* run has finished the callback has run exactly once, with the outcome of
\* the last introspection.
C34_ChildIntrospected ==
    [][ /\ ProcessXMLStep /\ FirstChildOnly(qXml) =>
            /\ qInvoked' = Append(qInvoked,
                                  [destination |-> serviceName,
                                   path |-> ChildPath(qObj, qXml.node[1].name),
                                   interface |-> "org.freedesktop.DBus.Introspectable",
                                   member |-> "Introspect"])
            /\ qCallbacks' = qCallbacks
            /\ qPc' = "introspecting"
        /\ ProcessXMLStep /\ ~FirstChildOnly(qXml) => qInvoked' = qInvoked
        /\ qPc' = "done" =>
            /\ Len(qCallbacks') = 1
            /\ qCallbacks = <<>>
            /\ qPc = "introspecting" =>
                  qCallbacks'[1] = <<DBusError("org.freedesktop.DBus.Error.Failed")>>
      ]_vars
\* two levels down from "/": the paths are /a and /a/a, and the callback
\* got the interfaces of the grandchild
C34_Witness ==
    /\ qPc = "done"
    /\ Len(qInvoked) = 2
    /\ qInvoked[1].path = <<"/", "a">>
    /\ qInvoked[2].path = <<"/", "a", "/", "a">>
    /\ Len(qCallbacks) = 1
    /\ qCallbacks[1][1] = Null

-----------------------------------------------------------------------------
(* C35, C36: the result of processXML for a root with interfaces           *)

\* the run ended with callback(null, result)
Introspected == qPc = "done" /\ Len(qCallbacks) = 1 /\ qCallbacks[1][1] = Null
IntrospectResult == qCallbacks[1][2]
\* the value a map holds for a key
Lookup(map, key) == The({map[i].value : i \in {j \in 1..Len(map) : map[j].key = key}})
\* the elements of a list that are the last of their name
LastOfName(list) ==
    {i \in 1..Len(list) : \A j \in (i + 1)..Len(list) : list[j].name # list[i].name}
RECURSIVE TypesFrom(_, _, _)
\* the types of args i.. whose direction is one of a set, in document order
TypesFrom(arg, i, directions) ==
    IF i > Len(arg) THEN ""
    ELSE (IF arg[i].direction \in directions THEN arg[i].type ELSE "")
            \o TypesFrom(arg, i + 1, directions)

\* C35: in the result, every method of every interface of the document has
\* as in-signature the types of its args with direction in or none, in
\* document order, and as out-signature the types of its out args; every
\* signal has as signature the types of all its args. (Of several elements
\* of one name the last is the one the result holds.)
C35_Signatures ==
    Introspected =>
        \A k \in 1..Len(qXml.interface) :
            \E proxy \in {Lookup(IntrospectResult.interfaces, qXml.interface[k].name)} :
                /\ \A i \in LastOfName(qXml.interface[k].method) :
                      \E m \in {qXml.interface[k].method[i]} :
                          /\ Lookup(proxy.methods, m.name).inSignature
                                = TypesFrom(m.arg, 1, {"in", ""})
                          /\ Lookup(proxy.methods, m.name).outSignature
                                = TypesFrom(m.arg, 1, {"out"})
                /\ \A i \in LastOfName(qXml.interface[k].signal) :
                      \E g \in {qXml.interface[k].signal[i]} :
                          Lookup(proxy.signals, g.name).signature
                                = TypesFrom(g.arg, 1, {"in", "out", ""})
\* the introspection of a child object returned the methods of com.x.A: M
\* takes "si" and returns "uas", O takes "ias" and returns "s"
C35_Witness ==
    /\ Introspected
    /\ Len(qInvoked) = 1
    /\ Len(qXml.interface) = 2
    /\ \E proxy \in {Lookup(IntrospectResult.interfaces, "com.x.A")} :
          /\ Lookup(proxy.methods, "M") = [name |-> "M", inSignature |-> "si", outSignature |-> "uas"]
          /\ Lookup(proxy.methods, "O") = [name |-> "O", inSignature |-> "ias", outSignature |-> "s"]
          /\ Lookup(proxy.signals, "S").signature = "is"

\* the names of the root's child nodes that have one, in document order
NamedChildren(xml) ==
    [i \in 1..Len(SelectSeq(xml.node, LAMBDA n : n.name # <<>>)) |->
        SelectSeq(xml.node, LAMBDA n : n.name # <<>>)[i].name]

\* C36: the nodes list of the result for a root with interfaces holds the
\* name of every named child node of the root, in document order.
C36_Nodes == Introspected => IntrospectResult.nodes = NamedChildren(qXml)

-----------------------------------------------------------------------------
(* C37: readOneLine                                                        *)

\* the positions of the newline bytes among the bytes that have arrived
NewlinesArrived == {k \in 1..lArrived : lBytes[k] = 10}
FirstNewline == Min(NewlinesArrived)

\* C37: however the bytes are split across readable events, the callback
\* has run at most once; it has run exactly when a 0x0a byte has arrived,
\* with the bytes before the first one (a CR among them included, the 0x0a
\* not), the bytes read from the stream then end with that 0x0a, and
\* onReadable is no listener any more; before that every byte that arrived
\* has been read and collected.
C37_OneLine ==
    /\ Len(lLines) <= 1
    /\ Len(lLines) = 1 <=> NewlinesArrived # {}
    /\ NewlinesArrived # {} =>
          /\ lLines[1] = SubSeq(lBytes, 1, FirstNewline - 1)
          /\ lRead = FirstNewline
          /\ ~lListening
    /\ NewlinesArrived = {} =>
          /\ lRead = lArrived
          /\ lCollected = SubSeq(lBytes, 1, lArrived)
          /\ lListening
\* a line that ends in CR LF arrived in two parts, split before the CR, and
\* a byte arrived after it that was not read
C37_Witness ==
    /\ lBytes = <<79, 13, 10, 79>>
    /\ lArrived = 4
    /\ lCollected = <<79, 13>>
    /\ lLines = <<<<79, 13>>>>
    /\ lRead = 3

-----------------------------------------------------------------------------
\* C38: for every frame that message.marshall emits, the streaming decoder
\* and the whole-buffer decoder produce the same message: unmarshalMessages
\* delivers exactly one message, message.unmarshall returns, and the two
\* agree in type, flags, serial, header fields and body, also when the
\* frame carries no body.
C38_SameMessage ==
    mStreamed.ran /\ mPc \in {"unmarshalled", "rejected"} =>
        /\ mPc = "unmarshalled"
        /\ mStreamed.err = ""
        /\ mStreamed.delivered = <<mBack>>

-----------------------------------------------------------------------------
\* the calls of a method the interface made on the bus for a signal's rule
CallsFor(method, name) ==
    Cardinality({i \in 1..Len(iCalls) :
                    iCalls[i] = <<method, getMatchRule(parentName, interfaceName, name)>>})

\* C39: when a handler was registered with on for two signals of the
\* interface and then removed with off from both, in either order, and
\* every callback of the bus has run without an error, the handler is a
\* listener of neither signal and removeMatch was called for both rules.
C39_BothRemoved ==
    \A h \in Handlers : \A first \in Signals : \A other \in Signals \ {first} :
        /\ \/ iOps = <<<<"on", h, first>>, <<"on", h, other>>,
                       <<"off", h, first>>, <<"off", h, other>>>>
           \/ iOps = <<<<"on", h, first>>, <<"on", h, other>>,
                       <<"off", h, other>>, <<"off", h, first>>>>
        /\ iCallbacks = <<>>
        /\ iThrown = 0
        => \A name \in Signals :
              /\ \A i \in 1..Len(iListeners[name]) : iListeners[name][i][1] # h
              /\ CallsFor("removeMatch", name) >= 1

-----------------------------------------------------------------------------
(* Claims about a put stream used for several calls.                       *)

\* some word of the stream is padding written by align
Padded == \E i \in 1..Len(wPs.words) :
              /\ "buffer" \in DOMAIN wPs.words[i]
              /\ wPs.words[i].buffer \in {Repeat(0, pad) : pad \in 1..7}

\* C40: after any sequence of align calls and simple-marshaller writes
\* none of which threw, _offset has advanced from the starting offset by
\* exactly the number of bytes buffer() returns, which is also _length.
C40_OffsetIsLength ==
    ~wThrew =>
        /\ wPs._offset - wStart = Len(buffer(wPs))
        /\ wPs._length = Len(buffer(wPs))
\* three calls were made on a stream that started off a multiple of
\* eight, none threw, an align call and a marshaller were among them, and
\* padding was written
C40_Witness ==
    /\ ~wThrew
    /\ wStart % 8 # 0
    /\ Len(wCalls) = MaxPutCalls
    /\ \E i \in 1..Len(wCalls) : wCalls[i][1] = "align"
    /\ \E i \in 1..Len(wCalls) : wCalls[i][1] # "align"
    /\ Padded
    /\ Len(buffer(wPs)) > 8

====
